---- MODULE Spec2Model ----
(***************************************************************************)
(* Gossipsub router of waku-relay (src/waku-relay/src/gossipsub).          *)
(* The router is single threaded: every handler runs to completion, so     *)
(* every handler is one action.  Handlers are written as operators from a  *)
(* router state (a record with one field per field of `Behaviour`) to the  *)
(* set of router states the handler can end in; the set has more than one  *)
(* element where the code draws random peers.                              *)
(***************************************************************************)
EXTENDS Integers, Sequences, FiniteSets, TLC

\* ------------------------------------------------------------------------
\* Universe of the model
\* ------------------------------------------------------------------------
Peers == {"p1", "p2", "p3"}
PeerOrder == <<"p1", "p2", "p3">>
Topics == {"t1"}
TopicOrder == <<"t1">>
OwnId == "self"
RandomIds == {"r1"}
\* payloads published: bytes that are no Waku message, and a Waku message
Payloads == {"d1", "v1"}

MaxConns == 1
MaxPending == 0
MaxPooled == 1
MaxSeqNo == 2
\* the most events left in the queue when the application makes its next call
\* without waiting for the swarm to poll
MaxBacklog == 2
\* the most entries in the history of the memcache when an RPC comes in
MaxHistory == 2
\* the most ticks of the heartbeat that are due at one poll
MaxTicks == 2
\* the largest numbers of messages, subscriptions and message ids of one RPC
\* handed to the fragmentation
MaxFragPublish == 4
MaxFragSubs == 4
MaxFragIds == 6

\* ------------------------------------------------------------------------
\* Configuration (Config of the router); the values are small so that the
\* mesh bounds are reached with two peers.
\* ------------------------------------------------------------------------
mesh_n == 1
mesh_n_low == 1
mesh_n_high == 1
mesh_outbound_min == 0
retain_scores == 0
prune_peers == 1
do_px == TRUE
prune_backoff == 2
unsubscribe_backoff == 1
gossip_lazy == 1
max_ihave_length == 2
max_ihave_messages == 2
gossip_retransimission == 1
history_length == 2
history_gossip == 1
max_transmit_size == 40
gossip_threshold == 0 - 1
publish_threshold == 0 - 2
graylist_threshold == 0 - 3
accept_px_threshold == 1
ScoreVals == {0 - 4, 0 - 1, 0}

Signers == {"Signed", "Author", "RandomAuthor", "Anonymous"}
ValidationModes == {"Strict", "Permissive", "Anonymous", "None"}
IdFns == {"default", "deterministic"}

\* ------------------------------------------------------------------------
\* Maps with a key set (HashMap): functions whose DOMAIN is the key set
\* ------------------------------------------------------------------------
EmptyMap == [x \in {} |-> {}]
Has(m, k) == k \in DOMAIN m
Put(m, k, v) == [x \in (DOMAIN m) \cup {k} |-> IF x = k THEN v ELSE m[x]]
Del(m, k) == [x \in (DOMAIN m) \ {k} |-> m[x]]
GetOr(m, k, d) == IF k \in DOMAIN m THEN m[k] ELSE d
Max2(a, b) == IF a >= b THEN a ELSE b
Min2(a, b) == IF a <= b THEN a ELSE b

\* Option<T>: <<>> is None, <<v>> is Some(v)
None == <<>>
Some(v) == <<v>>

\* The elements of a set in the iteration order of the model
PeerSeq(ps) == SelectSeq(PeerOrder, LAMBDA p: p \in ps)
TopicSeq(ts) == SelectSeq(TopicOrder, LAMBDA t: t \in ts)

RECURSIVE FoldSeq(_, _, _)
FoldSeq(F(_, _), acc, seq) ==
    IF seq = <<>> THEN acc
    ELSE CHOOSE r \in {FoldSeq(F, x, Tail(seq)) : x \in {F(acc, Head(seq))}} : TRUE

\* The value of an expression under a name: F of x
With(x, F(_)) == F(x)

\* Sequential composition of nondeterministic handlers: a panic ends the run
Then(SS, F(_)) == UNION {IF s.panicked THEN {s} ELSE F(s) : s \in SS}
RECURSIVE ForEach(_, _, _)
ForEach(F(_, _), SS, seq) ==
    IF seq = <<>> THEN SS
    ELSE ForEach(F, Then(SS, LAMBDA s: F(s, Head(seq))), Tail(seq))

Panic(S) == [S EXCEPT !.panicked = TRUE]

\* ------------------------------------------------------------------------
\* Ghost record: what the last handler was given and what it answered
\* ------------------------------------------------------------------------
NewLast(op, p, t) ==
    [op |-> op, peer |-> p, topic |-> t, id |-> <<>>, result |-> "",
     sent |-> <<>>, controls |-> <<>>, orig |-> {}, outcomes |-> <<>>,
     penalty |-> EmptyMap, rejected |-> {}, flag |-> FALSE, grafts |-> <<>>,
     fragments |-> <<>>, rpc |-> None, acceptance |-> "", ticks |-> 0]
SetResult(S, r) == [S EXCEPT !.last.result = r]

\* ------------------------------------------------------------------------
\* PeerKind
\* ------------------------------------------------------------------------
Kinds == {"Gossipsubv1_1", "Gossipsub", "Floodsub", "NotSupported"}
is_gossipsub(k) == k \in {"Gossipsubv1_1", "Gossipsub"}
is_floodsub(k) == k = "Floodsub"

\* ------------------------------------------------------------------------
\* ConnectionManager
\* ------------------------------------------------------------------------
kind(S, p) == IF Has(S.connected_peers, p) THEN Some(S.connected_peers[p].kind) ELSE None
kind_is_gossipsub(S, p) == Has(S.connected_peers, p) /\ is_gossipsub(S.connected_peers[p].kind)
connections(S, p) ==
    IF Has(S.connected_peers, p) THEN S.connected_peers[p].connections ELSE <<>>
is_outbound(S, p) == p \in S.outbound_peers
floodsub_peers(S) == {p \in DOMAIN S.connected_peers : is_floodsub(S.connected_peers[p].kind)}

track_connection(S, p, c, k, outbound) ==
    LET old == S.connected_peers
        entry == IF Has(old, p)
                 THEN [old[p] EXCEPT !.connections = Append(@, c)]
                 ELSE [kind |-> k, connections |-> <<c>>]
    IN [S EXCEPT !.connected_peers = Put(old, p, entry),
                 !.outbound_peers = IF outbound THEN @ \cup {p} ELSE @]

remove_connection(S, p, c) ==
    IF ~Has(S.connected_peers, p) THEN S
    ELSE LET rest == SelectSeq(S.connected_peers[p].connections, LAMBDA x: x # c)
         IN IF rest = <<>>
            THEN [S EXCEPT !.connected_peers = Del(@, p)]
            ELSE [S EXCEPT !.connected_peers[p].connections = rest]

set_kind(S, p, k) ==
    IF Has(S.connected_peers, p) THEN [S EXCEPT !.connected_peers[p].kind = k] ELSE S

remove_peer(S, p) ==
    [S EXCEPT !.connected_peers = Del(@, p), !.outbound_peers = @ \ {p}]

\* ------------------------------------------------------------------------
\* PeerScoreService: the Noop service answers (false, 0.0); the scoring
\* service compares the peer's score with the threshold.
\* ------------------------------------------------------------------------
Score(S, p) == IF p \in DOMAIN S.score THEN S.score[p] ELSE 0
score_below_threshold(S, p, thr) == S.cfg.scoring /\ Score(S, p) < thr
service_publish_threshold(S) == IF S.cfg.scoring THEN publish_threshold ELSE 0
peer_score_metric_score(S, p) == IF S.cfg.scoring THEN Score(S, p) ELSE 0
\* The score bookkeeping of the service is not part of the router; the calls
\* the router makes are recorded in the ghost record `last`
peer_score_add_penalty(S, p, n) == [S EXCEPT !.last.penalty = Put(@, p, GetOr(@, p, 0) + n)]
\* peer_score_reject_message and peer_score_reject_invalid_message
peer_score_reject(S, p) == [S EXCEPT !.last.rejected = @ \cup {p}]

\* GossipPromises of the scoring service: (peer, message id) pairs; the Noop
\* service keeps none
promises_contains(S, id) ==
    IF S.cfg.scoring THEN ~(\E x \in S.promises : x[2] = id) ELSE TRUE
promises_add(S, p, ids) ==
    IF S.cfg.scoring THEN [S EXCEPT !.promises = @ \cup {<<p, id>> : id \in ids}] ELSE S
promises_message_delivered(S, id) ==
    [S EXCEPT !.promises = {x \in @ : x[2] # id}]
\* GossipPromises::reject_message: the promises for the id are dropped,
\* unless the message had an invalid signature or claimed our own origin
gossip_promises_reject_message(S, id, reason) ==
    IF S.cfg.scoring /\ reason \notin {"InvalidSignature", "SelfOrigin"}
    THEN [S EXCEPT !.promises = {x \in @ : x[2] # id}]
    ELSE S
\* GossipPromises::get_broken_promises: the number of expired promises of
\* each peer
broken_promises(broken) ==
    [p \in {x[1] : x \in broken} |-> Cardinality({x \in broken : x[1] = p})]

\* ------------------------------------------------------------------------
\* BackoffStorage: remaining heartbeats per (topic, peer)
\* ------------------------------------------------------------------------
get_backoff_time(S, t, p) == GetOr(S.backoffs, <<t, p>>, 0)
is_backoff_with_slack(S, t, p) == get_backoff_time(S, t, p) > 0
update_backoff(S, t, p, time) ==
    [S EXCEPT !.backoffs = Put(@, <<t, p>>, Max2(get_backoff_time(S, t, p), time))]
backoffs_heartbeat(S) ==
    LET live == {k \in DOMAIN S.backoffs : S.backoffs[k] > 1}
    IN [S EXCEPT !.backoffs = [k \in live |-> S.backoffs[k] - 1]]

\* ------------------------------------------------------------------------
\* RPCs
\* ------------------------------------------------------------------------
EmptyControl == [ihave |-> <<>>, iwant |-> <<>>, graft |-> <<>>, prune |-> <<>>]

ControlFromIter(control_msgs) ==
    FoldSeq(LAMBDA c, a:
              CASE a.type = "IHave" -> [c EXCEPT !.ihave = Append(@, a)]
                [] a.type = "IWant" -> [c EXCEPT !.iwant = Append(@, a)]
                [] a.type = "Graft" -> [c EXCEPT !.graft = Append(@, a)]
                [] OTHER -> [c EXCEPT !.prune = Append(@, a)],
            EmptyControl, control_msgs)

\* impl From<Rpc> for RpcProto: `is_empty().then(..)` yields the control
\* envelope only when there is no control message
RpcToProto(rpc) ==
    [subscriptions |-> rpc.subscriptions,
     publish |-> rpc.messages,
     control |-> IF rpc.control_msgs = <<>>
                 THEN Some(ControlFromIter(rpc.control_msgs))
                 ELSE None]

Graft(t) == [type |-> "Graft", topic |-> t]
Prune(t, px, backoff) == [type |-> "Prune", topic |-> t, peers |-> px, backoff |-> backoff]
IHave(t, ids) == [type |-> "IHave", topic |-> t, ids |-> ids]
IWant(ids) == [type |-> "IWant", ids |-> ids]
Subscription(action, t) == [action |-> action, topic |-> t]

\* Encoded length of the protobuf messages (prost): a length-delimited field
\* is one byte of key, the varint of the length (one byte for the lengths
\* below 128 of the model), and the payload
field_len(n) == 2 + n

\* byte lengths of the values of the model: topics and payloads of two
\* bytes, the payload "big" of max_transmit_size bytes, the empty payload
TopicLen(t) == IF t = "" THEN 0 ELSE 2
DataLen(d) == IF d = "big" THEN max_transmit_size ELSE IF d = "" THEN 0 ELSE 2

\* Message: from (4 bytes), data, seqno (8 bytes), topic, signature and key
\* (4 bytes each)
MessageLen(m) ==
    (IF m.source = None THEN 0 ELSE field_len(4))
    + field_len(DataLen(m.data))
    + (IF m.sequence_number = None THEN 0 ELSE field_len(8))
    + field_len(TopicLen(m.topic))
    + (IF m.signature = None THEN 0 ELSE field_len(4))
    + (IF m.key = None THEN 0 ELSE field_len(4))

\* SubOpts: subscribe (bool) and topic_id
SubscriptionLen(sub) == 2 + field_len(TopicLen(sub.topic))

\* ControlIHave, ControlIWant, ControlGraft, ControlPrune: message ids and
\* peer ids of 4 bytes, the backoff a varint of one byte
ControlItemLen(a) ==
    CASE a.type = "IHave" -> field_len(TopicLen(a.topic)) + Len(a.ids) * field_len(4)
      [] a.type = "IWant" -> Len(a.ids) * field_len(4)
      [] a.type = "Graft" -> field_len(TopicLen(a.topic))
      [] OTHER ->
           field_len(TopicLen(a.topic))
           + FoldSeq(LAMBDA n, q: n + field_len(IF q = None THEN 0 ELSE field_len(4)),
                     0, a.peers)
           + (IF a.backoff = None THEN 0 ELSE 2)

ControlLen(c) ==
    FoldSeq(LAMBDA n, a: n + field_len(ControlItemLen(a)), 0,
            c.ihave \o c.iwant \o c.graft \o c.prune)

encoded_len(rpc) ==
    FoldSeq(LAMBDA n, sub: n + field_len(SubscriptionLen(sub)), 0, rpc.subscriptions)
    + FoldSeq(LAMBDA n, m: n + field_len(MessageLen(m)), 0, rpc.publish)
    + (IF rpc.control = None THEN 0 ELSE field_len(ControlLen(rpc.control[1])))

\* faulty variant of create_or_add_rpc: the new RPC replaces the current one
create_or_replace_rpc(rpc_list, object_size, max_size) ==
    LET new_rpc == [subscriptions |-> <<>>, publish |-> <<>>, control |-> None]
        cur == rpc_list[Len(rpc_list)]
    IN IF encoded_len(cur) + ((object_size * 105) \div 100) > max_size /\ cur # new_rpc
       THEN [rpc_list EXCEPT ![Len(rpc_list)] = new_rpc]
       ELSE rpc_list

\* create_or_add_rpc!: a new RPC is started when the object plus 5% of its
\* size does not fit into the current one, unless the current one is empty
create_or_add_rpc(rpc_list, object_size, max_size) ==
    LET new_rpc == [subscriptions |-> <<>>, publish |-> <<>>, control |-> None]
        cur == rpc_list[Len(rpc_list)]
    IN IF encoded_len(cur) + ((object_size * 105) \div 100) > max_size /\ cur # new_rpc
       THEN Append(rpc_list, new_rpc)
       ELSE rpc_list

\* add_item!: MessageTooLarge when the object and two bytes of framing exceed
\* max_size, otherwise room is made for the object
add_item(acc, object_size, max_size) ==
    IF ~acc.ok \/ object_size + 2 > max_size THEN [acc EXCEPT !.ok = FALSE]
    ELSE [acc EXCEPT !.rpcs = create_or_add_rpc(@, object_size, max_size)]

\* the push onto the last RPC of the list that ends add_item!
push_publish(acc, m) ==
    IF acc.ok THEN [acc EXCEPT !.rpcs[Len(acc.rpcs)].publish = Append(@, m)] ELSE acc
push_subscription(acc, sub) ==
    IF acc.ok THEN [acc EXCEPT !.rpcs[Len(acc.rpcs)].subscriptions = Append(@, sub)] ELSE acc

\* one control sub-message into the control envelope of the last RPC
control_push(c, a) ==
    CASE a.type = "IHave" -> [c EXCEPT !.ihave = Append(@, a)]
      [] a.type = "IWant" -> [c EXCEPT !.iwant = Append(@, a)]
      [] a.type = "Graft" -> [c EXCEPT !.graft = Append(@, a)]
      [] OTHER -> [c EXCEPT !.prune = Append(@, a)]
push_control(rpc_list, a) ==
    [rpc_list EXCEPT ![Len(rpc_list)].control =
        Some(control_push(IF @ = None THEN EmptyControl ELSE @[1], a))]
set_control(rpc_list, control) ==
    [rpc_list EXCEPT ![Len(rpc_list)].control = Some(control)]

\* the control part of fragment_rpc_message: acc is the outcome for the
\* messages and the subscriptions
fragment_control(acc, control, max_size) ==
    IF ~acc.ok THEN [ok |-> FALSE, rpcs |-> <<>>]
    ELSE IF control = None THEN acc
    ELSE IF ControlLen(control[1]) + 2 > max_size
    THEN [acc EXCEPT !.rpcs =
            FoldSeq(LAMBDA l, a:
                      push_control(create_or_add_rpc(l, ControlItemLen(a), max_size), a),
                    @,
                    control[1].ihave \o control[1].iwant \o control[1].graft
                    \o control[1].prune)]
    ELSE [acc EXCEPT !.rpcs =
            set_control(create_or_add_rpc(@, ControlLen(control[1]), max_size), control[1])]

\* fragment_rpc_message: ok is FALSE for FragmentationError::MessageTooLarge
fragment_rpc_message(rpc, max_size) ==
    IF encoded_len(rpc) < max_size THEN [ok |-> TRUE, rpcs |-> <<rpc>>]
    ELSE fragment_control(
           FoldSeq(LAMBDA acc, sub:
                     push_subscription(add_item(acc, SubscriptionLen(sub), max_size), sub),
                   FoldSeq(LAMBDA acc, m:
                             push_publish(add_item(acc, MessageLen(m), max_size), m),
                           [ok |-> TRUE,
                            rpcs |-> <<[subscriptions |-> <<>>, publish |-> <<>>,
                                        control |-> None]>>],
                           rpc.publish),
                   rpc.subscriptions),
           rpc.control, max_size)

HandlerMessage(p, rpc) == [type |-> "HandlerMessage", peer |-> p, rpc |-> rpc]

\* faulty variant of queue_fragments: the fragments jump the queue
queue_fragments_front(S, p, f) ==
    IF ~f.ok THEN [ok |-> FALSE, s |-> S]
    ELSE [ok |-> TRUE,
          s |-> [S EXCEPT !.events =
                              [i \in 1..Len(f.rpcs) |-> HandlerMessage(p, f.rpcs[i])] \o @,
                          !.last.fragments = @ \o f.rpcs]]

\* the fragments are queued for the connection handler of the peer
queue_fragments(S, p, f) ==
    IF ~f.ok THEN [ok |-> FALSE, s |-> S]
    ELSE [ok |-> TRUE,
          s |-> [S EXCEPT !.events =
                    @ \o [i \in 1..Len(f.rpcs) |-> HandlerMessage(p, f.rpcs[i])],
                          !.last.fragments = @ \o f.rpcs]]

\* send_rpc_message: ok is FALSE for PublishError::MessageTooLarge
send_rpc_message(S, p, rpc) ==
    queue_fragments(S, p, fragment_rpc_message(rpc, max_transmit_size))

\* the control actions handed over are recorded in the ghost record `last`
send_control_rpc_message(S, p, control) ==
    send_rpc_message(
        [S EXCEPT !.last.controls = Append(@, [peer |-> p, actions |-> control])], p,
        RpcToProto([subscriptions |-> <<>>, messages |-> <<>>, control_msgs |-> control]))

send_subscription_rpc_message(S, p, subs) ==
    send_rpc_message(S, p,
        RpcToProto([subscriptions |-> subs, messages |-> <<>>, control_msgs |-> <<>>]))

control_pool_add(S, p, control) ==
    [S EXCEPT !.control_pool = Put(@, p, Append(GetOr(@, p, <<>>), control))]

\* ------------------------------------------------------------------------
\* Messages, message ids, signer, validator
\* ------------------------------------------------------------------------
RawMessage(src, data, seq, t, sig, key) ==
    [source |-> src, data |-> data, sequence_number |-> seq, topic |-> t,
     signature |-> sig, key |-> key]

\* default_message_id_fn: base58(source or the zero peer id) ++ decimal(seqno or 0)
default_message_id_fn(m) ==
    <<"default",
      IF m.source = None THEN "zero" ELSE m.source[1],
      IF m.sequence_number = None THEN 0 ELSE m.sequence_number[1]>>

\* WakuMessage::decode (prost) of the data: no bytes decode to the default
\* Waku message (every field absent); the values "v1" and "v2" name the
\* two-byte encodings of the Waku messages that hold nothing but the
\* version 1 and 2 (empty payload and content topic, no meta); every other
\* data value of the model names bytes that prost refuses to decode
WakuMessage(payload, content_topic, version, meta) ==
    [payload |-> payload, content_topic |-> content_topic, version |-> version,
     meta |-> meta]
waku_message_decode(data) ==
    CASE data = "" -> Some(WakuMessage("", "", None, None))
      [] data = "v1" -> Some(WakuMessage("", "", Some(1), None))
      [] data = "v2" -> Some(WakuMessage("", "", Some(2), None))
      [] OTHER -> None

\* fallback_message_id_fn: SHA-256 over the data alone
fallback_message_id_fn(m) == <<"sha256", m.data>>

\* compute_deterministic_message_hash: SHA-256 over the concatenation of the
\* pubsub topic, the payload, the content topic and the meta field
compute_deterministic_message_hash(topic, message) ==
    <<"sha256", topic \o message.payload \o message.content_topic
                \o (IF message.meta = None THEN "" ELSE message.meta[1])>>

\* deterministic_message_id_fn: the deterministic hash of the Waku message
\* held in `data`, the fallback when the data is no Waku message
deterministic_message_id_fn(m) ==
    IF waku_message_decode(m.data) = None THEN fallback_message_id_fn(m)
    ELSE compute_deterministic_message_hash(m.topic, waku_message_decode(m.data)[1])

\* faulty variant of message_id: the configured function is ignored
message_id_default(cfg, m) == default_message_id_fn(m)

message_id(cfg, m) ==
    IF cfg.idfn = "default" THEN default_message_id_fn(m) ELSE deterministic_message_id_fn(m)

\* Config::fast_message_id: None unless a fast id function is configured
fast_message_id(cfg, m) ==
    IF cfg.fast_id THEN Some(<<"fast", m.topic, m.data>>) ELSE None

\* MessageSigner::author
author(cfg) == IF cfg.signer \in {"Signed", "Author"} THEN Some(OwnId) ELSE None

\* validate_message_proto: topic not empty, `from` a peer id, seqno 8 bytes;
\* "Ok" or the name of the MessageValidationError
validate_message_proto_result(m) ==
    IF m.topic = "" THEN "InvalidTopic"
    ELSE IF m.source # None /\ m.source[1] = "badid" THEN "InvalidPeerId"
    ELSE IF m.sequence_number # None /\ m.sequence_number[1] < 0 THEN "InvalidSequenceNumber"
    ELSE "Ok"

validate_message_proto(m) == validate_message_proto_result(m) = "Ok"

\* Keys and signatures: a key field names the peer whose public key it
\* encodes, "!!" names bytes that are no key; a signature names the peer
\* whose key made it over the fields of this message, any other value is a
\* signature that verifies under no key. The peer ids of the model inline
\* their key, except the random ones, which are hashes
try_decode_protobuf(key) == IF key = "!!" THEN None ELSE Some(key)

\* extract_key: Some(key) or None for an error
extract_key(m) ==
    IF m.key # None THEN try_decode_protobuf(m.key[1])
    ELSE IF m.source = None THEN None
    ELSE IF m.source[1] \in RandomIds THEN None
    ELSE Some(m.source[1])

verify_message_signature(m, signature, public_key) == signature = public_key

\* MessageValidator::validate of the four validators: "Ok" or the name of
\* the MessageValidationError
validate_result(mode, m) ==
    CASE mode = "None" -> "Ok"
      [] mode = "Anonymous" ->
            IF m.signature # None THEN "SignaturePresent"
            ELSE IF m.sequence_number # None THEN "SequenceNumberPresent"
            ELSE IF m.source # None THEN "MessageSourcePresent"
            ELSE IF m.key # None THEN "KeyPresent"
            ELSE "Ok"
      [] mode = "Permissive" ->
            IF m.signature = None THEN "Ok"
            ELSE IF extract_key(m) = None THEN "MissingPublicKey"
            ELSE IF m.source # None /\ m.source[1] # extract_key(m)[1] THEN "InvalidKey"
            ELSE IF ~verify_message_signature(m, m.signature[1], extract_key(m)[1])
            THEN "InvalidSignature"
            ELSE "Ok"
      [] OTHER ->
            IF m.sequence_number = None THEN "MissingSequenceNumber"
            ELSE IF m.source = None THEN "InvalidPeerId"
            ELSE IF m.signature = None THEN "MissingSignature"
            ELSE IF extract_key(m) = None THEN "MissingPublicKey"
            ELSE IF m.source[1] # extract_key(m)[1] THEN "InvalidKey"
            ELSE IF ~verify_message_signature(m, m.signature[1], extract_key(m)[1])
            THEN "InvalidSignature"
            ELSE "Ok"

validate(mode, m) == validate_result(mode, m) = "Ok"

\* validate_config
is_signing(signer) == signer = "Signed"
is_anonymous(signer) == signer = "Anonymous"
\* faulty variant of validate_config: Strict lets the Anonymous signer pass
validate_config_strict_unsigned(signer, mode) ==
    CASE mode = "Anonymous" -> ~is_signing(signer) /\ is_anonymous(signer)
      [] mode = "Strict" -> is_signing(signer) \/ is_anonymous(signer)
      [] OTHER -> TRUE

validate_config(signer, mode) ==
    CASE mode = "Anonymous" -> ~is_signing(signer) /\ is_anonymous(signer)
      [] mode = "Strict" -> is_signing(signer)
      [] OTHER -> TRUE

\* ------------------------------------------------------------------------
\* TimeCache / DuplicateCache: keys in insertion order, the oldest expires
\* first
\* ------------------------------------------------------------------------
SeqContains(seq, x) == \E i \in 1..Len(seq) : seq[i] = x
cache_insert(seq, x) == IF SeqContains(seq, x) THEN seq ELSE Append(seq, x)

\* ------------------------------------------------------------------------
\* MessageCache
\* ------------------------------------------------------------------------
CacheEntry(mid, t) == [mid |-> mid, topic |-> t]
NewMessageCache ==
    [msgs |-> EmptyMap, iwant_counts |-> EmptyMap,
     history |-> [i \in 1..history_length |-> <<>>]]

mcache_put(mc, mid, msg, validated) ==
    IF Has(mc.msgs, mid) THEN mc
    ELSE [mc EXCEPT !.msgs = Put(@, mid, [msg |-> msg, validated |-> validated, peers |-> {}]),
                    !.history[1] = Append(@, CacheEntry(mid, msg.topic))]

mcache_observe_duplicate(mc, mid, source) ==
    IF Has(mc.msgs, mid) /\ ~mc.msgs[mid].validated
    THEN [mc EXCEPT !.msgs[mid].peers = @ \cup {source}]
    ELSE mc

\* validate: the entry with the flag set and the harvested originating peers
mcache_validate(mc, mid) ==
    [mc EXCEPT !.msgs[mid].validated = TRUE, !.msgs[mid].peers = {}]

mcache_remove(mc, mid) ==
    [mc EXCEPT !.msgs = Del(@, mid), !.iwant_counts = Del(@, mid)]

mcache_get_with_iwant_counts(mc, mid, peer) ==
    IF Has(mc.msgs, mid) /\ mc.msgs[mid].validated
    THEN LET old == GetOr(GetOr(mc.iwant_counts, mid, EmptyMap), peer, 0)
         IN [found |-> TRUE, count |-> old + 1,
             mc |-> [mc EXCEPT !.iwant_counts =
                        Put(@, mid, Put(GetOr(@, mid, EmptyMap), peer, old + 1))]]
    ELSE [found |-> FALSE, count |-> 0, mc |-> mc]

\* faulty variant of get_gossip_message_ids: unvalidated entries are listed
mcache_get_gossip_message_ids_unvalidated(mc, t) ==
    FoldSeq(LAMBDA acc, slot:
              acc \o [i \in 1..Len(SelectSeq(slot, LAMBDA e: e.topic = t /\ Has(mc.msgs, e.mid)))
                      |-> SelectSeq(slot, LAMBDA e: e.topic = t /\ Has(mc.msgs, e.mid))[i].mid],
            <<>>, SubSeq(mc.history, 1, history_gossip))

mcache_get_gossip_message_ids(mc, t) ==
    FoldSeq(LAMBDA acc, slot:
              acc \o [i \in 1..Len(SelectSeq(slot, LAMBDA e:
                           e.topic = t /\ Has(mc.msgs, e.mid) /\ mc.msgs[e.mid].validated))
                      |-> SelectSeq(slot, LAMBDA e:
                           e.topic = t /\ Has(mc.msgs, e.mid) /\ mc.msgs[e.mid].validated)[i].mid],
            <<>>, SubSeq(mc.history, 1, history_gossip))

\* faulty variant of shift: the retransmission counters stay
mcache_shift_keep_counts(mc) ==
    LET last_slot == mc.history[Len(mc.history)]
        gone == {last_slot[i].mid : i \in 1..Len(last_slot)}
    IN [msgs |-> [k \in (DOMAIN mc.msgs) \ gone |-> mc.msgs[k]],
        iwant_counts |-> mc.iwant_counts,
        history |-> <<<<>>>> \o SubSeq(mc.history, 1, Len(mc.history) - 1)]

mcache_shift(mc) ==
    LET last_slot == mc.history[Len(mc.history)]
        gone == {last_slot[i].mid : i \in 1..Len(last_slot)}
    IN [msgs |-> [k \in (DOMAIN mc.msgs) \ gone |-> mc.msgs[k]],
        iwant_counts |-> [k \in (DOMAIN mc.iwant_counts) \ gone |-> mc.iwant_counts[k]],
        history |-> <<<<>>>> \o SubSeq(mc.history, 1, Len(mc.history) - 1)]

\* ------------------------------------------------------------------------
\* Mesh notifications to the connection handler
\* ------------------------------------------------------------------------
in_other_mesh(S, p, skip) ==
    Has(S.peer_topics, p) /\
    \E t \in S.peer_topics[p] : t \notin skip /\ Has(S.mesh, t) /\ p \in S.mesh[t]

\* assert!(conn.is_some(), "Must have at least one connection")
peer_added_to_mesh(S, p, new_topics) ==
    IF connections(S, p) = <<>> THEN Panic(S)
    ELSE IF in_other_mesh(S, p, new_topics) THEN S
    ELSE [S EXCEPT !.events = Append(@,
             [type |-> "JoinedMesh", peer |-> p, conn |-> connections(S, p)[1]])]

\* .expect("There should be at least one connection to a peer.")
peer_removed_from_mesh(S, p, old_topic) ==
    IF connections(S, p) = <<>> THEN Panic(S)
    ELSE IF in_other_mesh(S, p, {old_topic}) THEN S
    ELSE [S EXCEPT !.events = Append(@,
             [type |-> "LeftMesh", peer |-> p, conn |-> connections(S, p)[1]])]

\* ------------------------------------------------------------------------
\* Random peer selection
\* ------------------------------------------------------------------------
RandomSubsets(cands, n) ==
    IF Cardinality(cands) <= n THEN {cands}
    ELSE {X \in SUBSET cands : Cardinality(X) = n}

get_random_peers_dynamic(S, t, n_of_total, ok) ==
    LET cands == IF Has(S.topic_peers, t)
                 THEN {p \in S.topic_peers[t] : p \in ok /\ kind_is_gossipsub(S, p)}
                 ELSE {}
    IN RandomSubsets(cands, n_of_total[Cardinality(cands)])

get_random_peers(S, t, n, ok) ==
    get_random_peers_dynamic(S, t, [m \in 0..Cardinality(Peers) |-> n], ok)

\* ------------------------------------------------------------------------
\* JOIN / LEAVE
\* ------------------------------------------------------------------------
join_filter(S, t, p) ==
    /\ p \notin S.explicit_peers
    /\ ~score_below_threshold(S, p, 0)
    /\ ~is_backoff_with_slack(S, t, p)

join_notify(S, t, p) ==
    {peer_added_to_mesh(control_pool_add(S, p, Graft(t)), p, {t})}

join(S, t) ==
    LET had == Has(S.fanout, t)
        kept == IF had THEN {p \in S.fanout[t] : join_filter(S, t, p)} ELSE {}
        add_peers == Min2(Cardinality(kept), S.cfg.mesh_n)
        fanout_added == {PeerSeq(kept)[i] : i \in 1..add_peers}
        S1 == IF had
              THEN [S EXCEPT !.fanout = Del(@, t),
                             !.mesh = Put(@, t, fanout_added),
                             !.fanout_last_pub = @ \ {t}]
              ELSE S
        more == Cardinality(fanout_added) < S.cfg.mesh_n
        news == IF more
                THEN get_random_peers(S1, t, S.cfg.mesh_n - Cardinality(fanout_added),
                        {p \in Peers : p \notin fanout_added /\ join_filter(S1, t, p)})
                ELSE {{}}
    IN UNION {
         LET S2 == IF more
                   THEN [S1 EXCEPT !.mesh = Put(@, t, GetOr(@, t, {}) \cup new)]
                   ELSE S1
         IN ForEach(LAMBDA s, p: join_notify(s, t, p), {S2}, PeerSeq(fanout_added \cup new))
         : new \in news}

\* faulty variant of make_prune: the backoff of a PRUNE on unsubscribe is
\* not recorded
make_prune_leave_unrecorded(S, t, p, px, on_unsubscribe) ==
    IF kind(S, p) = Some("Gossipsub")
    THEN {[s |-> S, c |-> Prune(t, <<>>, None)]}
    ELSE LET pxs == IF px
                    THEN get_random_peers(S, t, S.cfg.prune_peers,
                            {q \in Peers : q # p /\ ~score_below_threshold(S, q, 0)})
                    ELSE {{}}
             backoff == IF on_unsubscribe THEN unsubscribe_backoff ELSE prune_backoff
         IN {[s |-> IF on_unsubscribe THEN S ELSE update_backoff(S, t, p, backoff),
              c |-> Prune(t, [i \in 1..Cardinality(x) |-> Some(PeerSeq(x)[i])], Some(backoff))]
             : x \in pxs}

\* make_prune: the set of (state, PRUNE action) pairs
make_prune(S, t, p, px, on_unsubscribe) ==
    IF kind(S, p) = Some("Gossipsub")
    THEN {[s |-> S, c |-> Prune(t, <<>>, None)]}
    ELSE LET pxs == IF px
                    THEN get_random_peers(S, t, S.cfg.prune_peers,
                            {q \in Peers : q # p /\ ~score_below_threshold(S, q, 0)})
                    ELSE {{}}
             backoff == IF on_unsubscribe THEN unsubscribe_backoff ELSE prune_backoff
         IN {[s |-> update_backoff(S, t, p, backoff),
              c |-> Prune(t, [i \in 1..Cardinality(x) |-> Some(PeerSeq(x)[i])], Some(backoff))]
             : x \in pxs}

leave_peer(S, t, p) ==
    {peer_removed_from_mesh(control_pool_add(r.s, p, r.c), p, t)
       : r \in make_prune(S, t, p, do_px, TRUE)}

leave(S, t) ==
    IF ~Has(S.mesh, t) THEN {S}
    ELSE ForEach(LAMBDA s, p: leave_peer(s, t, p),
                 {[S EXCEPT !.mesh = Del(@, t)]}, PeerSeq(S.mesh[t]))

\* ------------------------------------------------------------------------
\* subscribe / unsubscribe
\* ------------------------------------------------------------------------
RECURSIVE send_all(_, _, _)
send_all(S, peers, rpc) ==
    IF peers = <<>> THEN [ok |-> TRUE, s |-> S]
    ELSE LET r == send_rpc_message(S, Head(peers), rpc)
         IN IF ~r.ok THEN r ELSE send_all(r.s, Tail(peers), rpc)

SubscriptionRpc(action, t) ==
    RpcToProto([subscriptions |-> <<Subscription(action, t)>>,
                messages |-> <<>>, control_msgs |-> <<>>])

\* faulty variant of unsubscribe: the answer does not depend on the mesh
unsubscribe_always(S, t) ==
    LET r == send_all(S, PeerSeq(DOMAIN S.peer_topics), SubscriptionRpc("Unsubscribe", t))
    IN IF ~r.ok THEN {SetResult(r.s, "Err(MessageTooLarge)")}
       ELSE {SetResult(s, "Ok(true)") : s \in leave(r.s, t)}

\* subscribe; the AllowAllSubscriptionFilter of the router lets every topic pass
subscribe(S, t) ==
    IF Has(S.mesh, t) THEN {SetResult(S, "Ok(false)")}
    ELSE LET r == send_all(S, PeerSeq(DOMAIN S.peer_topics), SubscriptionRpc("Subscribe", t))
         IN IF ~r.ok THEN {SetResult(r.s, "Err(MessageTooLarge)")}
            ELSE {SetResult(s, "Ok(true)") : s \in join(r.s, t)}

unsubscribe(S, t) ==
    IF ~Has(S.mesh, t) THEN {SetResult(S, "Ok(false)")}
    ELSE LET r == send_all(S, PeerSeq(DOMAIN S.peer_topics), SubscriptionRpc("Unsubscribe", t))
         IN IF ~r.ok THEN {SetResult(r.s, "Err(MessageTooLarge)")}
            ELSE {SetResult(s, "Ok(true)") : s \in leave(r.s, t)}

\* ------------------------------------------------------------------------
\* forward_msg
\* ------------------------------------------------------------------------
MessageRpc(m) ==
    RpcToProto([subscriptions |-> <<>>, messages |-> <<m>>, control_msgs |-> <<>>])

\* faulty variant of forward_recipients: nobody is excluded
forward_recipients_no_exclusion(S, m, propagation_source, originating_peers) ==
    {p \in S.explicit_peers : Has(S.peer_topics, p) /\ m.topic \in S.peer_topics[p]}
    \cup GetOr(S.mesh, m.topic, {})

forward_recipients(S, m, propagation_source, originating_peers) ==
    LET excluded(p) == \/ Some(p) = propagation_source
                       \/ p \in originating_peers
                       \/ Some(p) = m.source
    IN {p \in S.explicit_peers :
            Has(S.peer_topics, p) /\ ~excluded(p) /\ m.topic \in S.peer_topics[p]}
       \cup
       {p \in GetOr(S.mesh, m.topic, {}) : ~excluded(p)}

\* send the message to each recipient, recording the sends in the ghost
RECURSIVE send_message_all(_, _, _)
send_message_all(S, peers, m) ==
    IF peers = <<>> THEN [ok |-> TRUE, s |-> S]
    ELSE With(send_rpc_message(S, Head(peers), MessageRpc(m)),
              LAMBDA r: IF ~r.ok THEN r
                        ELSE send_message_all(
                               [r.s EXCEPT !.last.sent = Append(@, Head(peers))],
                               Tail(peers), m))

forward_msg(S, m, propagation_source, originating_peers) ==
    LET recipient_peers == forward_recipients(S, m, propagation_source, originating_peers)
    IN IF recipient_peers = {} THEN [ok |-> TRUE, sent |-> FALSE, s |-> S]
       ELSE With(send_message_all(S, PeerSeq(recipient_peers), m),
                 LAMBDA r: [ok |-> r.ok, sent |-> r.ok, s |-> r.s])

\* ------------------------------------------------------------------------
\* publish
\* ------------------------------------------------------------------------
\* The identity DataTransform: a RawMessage loses its signature and key
inbound_transform(m) ==
    [source |-> m.source, data |-> m.data, sequence_number |-> m.sequence_number,
     topic |-> m.topic]

\* faulty variant of sign: no sequence number without a key
sign_seqno_signed_only(S, t, data, rnd) ==
    CASE S.cfg.signer = "Signed" ->
            RawMessage(Some(OwnId), data, Some(S.seqno + 1), t, Some(OwnId), None)
      [] S.cfg.signer = "Author" ->
            RawMessage(Some(OwnId), data, None, t, None, None)
      [] S.cfg.signer = "RandomAuthor" ->
            RawMessage(Some(rnd.id), data, None, t, None, None)
      [] OTHER -> RawMessage(None, data, None, t, None, None)

\* sequence number generator and signer of the configured authenticity;
\* rnd holds the values drawn from the random number generator. The key of
\* the Libp2pSigner is inlined in the peer id, so the key field stays empty
sign(S, t, data, rnd) ==
    CASE S.cfg.signer = "Signed" ->
            RawMessage(Some(OwnId), data, Some(S.seqno + 1), t, Some(OwnId), None)
      [] S.cfg.signer = "Author" ->
            RawMessage(Some(OwnId), data, Some(rnd.seq), t, None, None)
      [] S.cfg.signer = "RandomAuthor" ->
            RawMessage(Some(rnd.id), data, Some(rnd.seq), t, None, None)
      [] OTHER -> RawMessage(None, data, None, t, None, None)

next_seqno(S) ==
    [S EXCEPT !.seqno = IF S.cfg.signer = "Signed" THEN @ + 1 ELSE @]

\* recipients of a publish besides the mesh: the set of (state, recipients)
publish_recipients(S, t) ==
    LET below(p) == score_below_threshold(S, p, publish_threshold)
    IN IF ~Has(S.topic_peers, t) THEN {[s |-> S, recipients |-> {}]}
       ELSE IF S.cfg.flood_publish
       THEN {[s |-> S,
              recipients |-> {p \in S.topic_peers[t] : p \in S.explicit_peers \/ ~below(p)}]}
       ELSE LET base == {p \in S.explicit_peers : p \in S.topic_peers[t]}
                        \cup {p \in floodsub_peers(S) : ~below(p)}
            IN IF Has(S.mesh, t) THEN {[s |-> S, recipients |-> base]}
               ELSE IF Has(S.fanout, t)
               THEN {[s |-> [S EXCEPT !.fanout_last_pub = @ \cup {t}],
                      recipients |-> base \cup S.fanout[t]]}
               ELSE {[s |-> [S EXCEPT !.fanout = Put(@, t, new),
                                      !.fanout_last_pub = @ \cup {t}],
                      recipients |-> base \cup new]
                     : new \in get_random_peers(S, t, S.cfg.mesh_n,
                          {p \in Peers : p \notin S.explicit_peers /\ ~below(p)})}

\* faulty variant of publish_commit: the duplicate cache is not told
publish_commit_no_duplicate_insert(S, msg_id, m, recipient_peers, mesh_peers_sent) ==
    IF recipient_peers = {} /\ ~mesh_peers_sent
    THEN SetResult(S, "InsufficientPeers")
    ELSE LET S1 == [S EXCEPT
                      !.mcache = mcache_put(@, msg_id, m, TRUE),
                      !.published_message_ids =
                          IF author(S.cfg) = None /\ ~S.cfg.allow_self_origin
                          THEN cache_insert(@, msg_id) ELSE @]
         IN With(send_message_all(S1, PeerSeq(recipient_peers), m),
                 LAMBDA r: IF r.ok THEN [r.s EXCEPT !.last.result = "Ok", !.last.id = msg_id]
                           ELSE SetResult(r.s, "MessageTooLarge"))

\* faulty variant of publish_commit: the id is recorded as published when
\* either condition holds
publish_commit_either(S, msg_id, m, recipient_peers, mesh_peers_sent) ==
    IF recipient_peers = {} /\ ~mesh_peers_sent
    THEN SetResult(S, "InsufficientPeers")
    ELSE LET S1 == [S EXCEPT
                      !.duplicate_cache = cache_insert(@, msg_id),
                      !.mcache = mcache_put(@, msg_id, m, TRUE),
                      !.published_message_ids =
                          IF author(S.cfg) = None \/ ~S.cfg.allow_self_origin
                          THEN cache_insert(@, msg_id) ELSE @]
         IN With(send_message_all(S1, PeerSeq(recipient_peers), m),
                 LAMBDA r: IF r.ok THEN [r.s EXCEPT !.last.result = "Ok", !.last.id = msg_id]
                           ELSE SetResult(r.s, "MessageTooLarge"))

\* faulty variant of publish_commit: the id enters the duplicate cache
\* before the recipients are counted
publish_commit_cache_first(S, msg_id, m, recipient_peers, mesh_peers_sent) ==
    IF recipient_peers = {} /\ ~mesh_peers_sent
    THEN SetResult([S EXCEPT !.duplicate_cache = cache_insert(@, msg_id)], "InsufficientPeers")
    ELSE LET S1 == [S EXCEPT
                      !.duplicate_cache = cache_insert(@, msg_id),
                      !.mcache = mcache_put(@, msg_id, m, TRUE),
                      !.published_message_ids =
                          IF author(S.cfg) = None /\ ~S.cfg.allow_self_origin
                          THEN cache_insert(@, msg_id) ELSE @]
         IN With(send_message_all(S1, PeerSeq(recipient_peers), m),
                 LAMBDA r: IF r.ok THEN [r.s EXCEPT !.last.result = "Ok", !.last.id = msg_id]
                           ELSE SetResult(r.s, "MessageTooLarge"))

\* insertion into the caches and the sends of a publish that found peers
publish_commit(S, msg_id, m, recipient_peers, mesh_peers_sent) ==
    IF recipient_peers = {} /\ ~mesh_peers_sent
    THEN SetResult(S, "InsufficientPeers")
    ELSE LET S1 == [S EXCEPT
                      !.duplicate_cache = cache_insert(@, msg_id),
                      !.mcache = mcache_put(@, msg_id, m, TRUE),
                      !.published_message_ids =
                          IF author(S.cfg) = None /\ ~S.cfg.allow_self_origin
                          THEN cache_insert(@, msg_id) ELSE @]
         IN With(send_message_all(S1, PeerSeq(recipient_peers), m),
                 LAMBDA r: IF r.ok THEN [r.s EXCEPT !.last.result = "Ok", !.last.id = msg_id]
                           ELSE SetResult(r.s, "MessageTooLarge"))

publish(S, t, data, rnd) ==
    LET m == sign(S, t, data, rnd)
        msg_id == message_id(S.cfg, inbound_transform(m))
    IN With([next_seqno(S) EXCEPT !.last.id = msg_id],
            LAMBDA S0:
              IF encoded_len(MessageRpc(m)) > max_transmit_size
              THEN {SetResult(S0, "MessageTooLarge")}
              ELSE IF SeqContains(S0.duplicate_cache, msg_id)
              THEN {SetResult(S0, "Duplicate")}
              ELSE With(IF S0.cfg.flood_publish
                        THEN [ok |-> TRUE, sent |-> FALSE, s |-> S0]
                        ELSE forward_msg(S0, m, None, {}),
                        LAMBDA f:
                          IF ~f.ok THEN {SetResult(f.s, "MessageTooLarge")}
                          ELSE {publish_commit(r.s, msg_id, m, r.recipients, f.sent)
                                  : r \in publish_recipients(f.s, t)}))

\* ------------------------------------------------------------------------
\* report_message_validation_result
\* ------------------------------------------------------------------------
report_accept(S, msg_id, propagation_source) ==
    IF ~Has(S.mcache.msgs, msg_id) THEN SetResult(S, "Ok(false)")
    ELSE LET e == S.mcache.msgs[msg_id]
             S1 == [S EXCEPT !.mcache = mcache_validate(@, msg_id), !.last.orig = e.peers]
         IN With(forward_msg(S1, e.msg, Some(propagation_source), e.peers),
                 LAMBDA f: SetResult(f.s, IF f.ok THEN "Ok(true)" ELSE "MessageTooLarge"))

\* faulty variant of report_reject: the duplicate cache is asked instead of
\* the memcache
report_reject_seen(S, msg_id, propagation_source) ==
    IF ~SeqContains(S.duplicate_cache, msg_id) THEN SetResult(S, "Ok(false)")
    ELSE LET peers == IF Has(S.mcache.msgs, msg_id) THEN S.mcache.msgs[msg_id].peers ELSE {}
             S1 == [S EXCEPT !.mcache = mcache_remove(@, msg_id), !.last.orig = peers]
         IN SetResult(
              FoldSeq(LAMBDA s, p: peer_score_reject(s, p), S1,
                      <<propagation_source>> \o PeerSeq(peers)),
              "Ok(true)")

report_reject(S, msg_id, propagation_source) ==
    IF ~Has(S.mcache.msgs, msg_id) THEN SetResult(S, "Ok(false)")
    ELSE LET e == S.mcache.msgs[msg_id]
             S1 == [S EXCEPT !.mcache = mcache_remove(@, msg_id), !.last.orig = e.peers]
         IN SetResult(
              FoldSeq(LAMBDA s, p: peer_score_reject(s, p), S1,
                      <<propagation_source>> \o PeerSeq(e.peers)),
              "Ok(true)")

report_message_validation_result(S, msg_id, propagation_source, acceptance) ==
    IF acceptance = "Accept" THEN report_accept(S, msg_id, propagation_source)
    ELSE report_reject(S, msg_id, propagation_source)

\* ------------------------------------------------------------------------
\* Receive path of one message
\* ------------------------------------------------------------------------
fast_cache_get(S, m) ==
    IF fast_message_id(S.cfg, m) # None /\ Has(S.fast_message_id_cache, fast_message_id(S.cfg, m)[1])
    THEN Some(S.fast_message_id_cache[fast_message_id(S.cfg, m)[1]])
    ELSE None

\* the message is rejected; a promise for it is dropped only when its fast
\* id is known
handle_invalid_message(S, propagation_source, m, reject_reason) ==
    IF fast_cache_get(S, m) # None
    THEN gossip_promises_reject_message(peer_score_reject(S, propagation_source),
                                        fast_cache_get(S, m)[1], reject_reason)
    ELSE peer_score_reject(S, propagation_source)

\* faulty variant of self_published: only the published ids are consulted
self_published_by_id(S, msg_id, m, propagation_source) ==
    /\ ~S.cfg.allow_self_origin
    /\ SeqContains(S.published_message_ids, msg_id)

self_published(S, msg_id, m, propagation_source) ==
    /\ ~S.cfg.allow_self_origin
    /\ IF author(S.cfg) # None
       THEN author(S.cfg)[1] # propagation_source /\ m.source = author(S.cfg)
       ELSE SeqContains(S.published_message_ids, msg_id)

\* message_is_valid: the verdict and the state after the scoring calls
message_is_valid(S, msg_id, m, propagation_source) ==
    IF propagation_source \in S.blacklisted_peers
    THEN [valid |-> FALSE,
          s |-> gossip_promises_reject_message(peer_score_reject(S, propagation_source),
                                               msg_id, "BlackListedPeer")]
    ELSE IF m.source # None /\ m.source[1] \in S.blacklisted_peers
    THEN [valid |-> FALSE,
          s |-> handle_invalid_message(S, propagation_source, m, "BlackListedSource")]
    ELSE IF self_published(S, msg_id, m, propagation_source)
    THEN [valid |-> FALSE,
          s |-> handle_invalid_message(S, propagation_source, m, "SelfOrigin")]
    ELSE [valid |-> TRUE, s |-> S]

Outcome(S, msg_id, m, res) ==
    [S EXCEPT !.last.outcomes = Append(@, [id |-> msg_id, m |-> m, res |-> res])]

MessageEvent(propagation_source, msg_id, message) ==
    [type |-> "Message", peer |-> propagation_source, message_id |-> msg_id,
     message |-> message]

\* faulty variant of handle_new_message: the application is not told
handle_new_message_silent(S, msg_id, m, propagation_source) ==
    Outcome([S EXCEPT !.mcache = mcache_put(@, msg_id, m, ~S.cfg.validate_messages)],
            msg_id, m, "cached")

\* the message is new: memcache, Message event, forwarding
handle_new_message(S, msg_id, m, propagation_source) ==
    LET S1 == [S EXCEPT !.mcache = mcache_put(@, msg_id, m, ~S.cfg.validate_messages)]
    IN IF ~Has(S1.mesh, m.topic) THEN Outcome(S1, msg_id, m, "cached")
       ELSE LET S2 == [S1 EXCEPT !.events = Append(@,
                          MessageEvent(propagation_source, msg_id, inbound_transform(m)))]
            IN IF S.cfg.validate_messages THEN Outcome(S2, msg_id, m, "delivered")
               ELSE Outcome(forward_msg(S2, m, Some(propagation_source), {}).s,
                            msg_id, m, "delivered")

\* faulty variant of handle_received_message: the answer of the duplicate
\* cache is ignored
handle_received_message_no_duplicate_check(S, m, propagation_source) ==
    LET msg_id == message_id(S.cfg, inbound_transform(m))
        v == message_is_valid(S, msg_id, m, propagation_source)
    IN IF ~v.valid THEN Outcome(v.s, msg_id, m, "invalid")
       ELSE handle_new_message(
                promises_message_delivered(
                    [v.s EXCEPT !.duplicate_cache = cache_insert(@, msg_id)], msg_id),
                msg_id, m, propagation_source)

handle_received_message(S, m, propagation_source) ==
    IF fast_cache_get(S, m) # None
    THEN LET known == fast_cache_get(S, m)[1]
             v == message_is_valid(S, known, m, propagation_source)
         IN IF v.valid
            THEN Outcome([v.s EXCEPT !.mcache =
                             mcache_observe_duplicate(@, known, propagation_source)],
                         known, m, "duplicate")
            ELSE Outcome(v.s, known, m, "invalid")
    ELSE LET msg_id == message_id(S.cfg, inbound_transform(m))
             v == message_is_valid(S, msg_id, m, propagation_source)
             S1 == IF fast_message_id(S.cfg, m) # None
                      /\ ~Has(v.s.fast_message_id_cache, fast_message_id(S.cfg, m)[1])
                   THEN [v.s EXCEPT !.fast_message_id_cache =
                            Put(@, fast_message_id(S.cfg, m)[1], msg_id)]
                   ELSE v.s
         IN IF ~v.valid THEN Outcome(v.s, msg_id, m, "invalid")
            ELSE IF SeqContains(S1.duplicate_cache, msg_id)
            THEN Outcome([S1 EXCEPT !.mcache =
                             mcache_observe_duplicate(@, msg_id, propagation_source)],
                         msg_id, m, "duplicate")
            ELSE handle_new_message(
                     promises_message_delivered(
                         [S1 EXCEPT !.duplicate_cache = cache_insert(@, msg_id)], msg_id),
                     msg_id, m, propagation_source)

\* ------------------------------------------------------------------------
\* Received subscriptions
\* ------------------------------------------------------------------------
IfAlive(S, F(_)) == IF S.panicked THEN S ELSE F(S)

\* filter_incoming_subscriptions: one subscription per topic, a topic with
\* contradicting actions is dropped; AllowAllSubscriptionFilter keeps the rest
filter_incoming_subscriptions(subs) ==
    FoldSeq(LAMBDA acc, sub:
              IF Has(acc, sub.topic)
              THEN (IF acc[sub.topic].action # sub.action THEN Del(acc, sub.topic) ELSE acc)
              ELSE Put(acc, sub.topic, sub),
            EmptyMap, subs)

remove_peer_from_mesh(S, p, t, backoff, always_update_backoff) ==
    LET in_mesh == Has(S.mesh, t) /\ p \in S.mesh[t]
        S1 == IF in_mesh
              THEN peer_removed_from_mesh([S EXCEPT !.mesh[t] = @ \ {p}], p, t)
              ELSE S
    IN IF S1.panicked \/ ~(always_update_backoff \/ in_mesh) THEN S1
       ELSE update_backoff(S1, t, p, IF backoff # None THEN backoff[1] ELSE prune_backoff)

subscription_graft_eligible(S, p, t) ==
    /\ p \notin S.explicit_peers
    /\ kind_is_gossipsub(S, p)
    /\ ~score_below_threshold(S, p, 0)
    /\ ~is_backoff_with_slack(S, t, p)
    /\ Has(S.mesh, t)
    /\ Cardinality(S.mesh[t]) < S.cfg.mesh_n_low
    /\ p \notin S.mesh[t]

SubscriptionEvent(type, p, t) == [type |-> type, peer |-> p, topic |-> t]

handle_subscription(acc, p, sub) ==
    LET t == sub.topic
        S1 == [acc.s EXCEPT !.topic_peers = Put(@, t, GetOr(@, t, {}))]
    IN IF sub.action = "Subscribe"
       THEN LET S2 == [S1 EXCEPT !.topic_peers[t] = @ \cup {p},
                                 !.peer_topics[p] = @ \cup {t}]
                g == subscription_graft_eligible(S2, p, t)
            IN [s |-> IF g THEN [S2 EXCEPT !.mesh[t] = @ \cup {p}] ELSE S2,
                graft |-> IF g THEN Append(acc.graft, t) ELSE acc.graft,
                unsub |-> acc.unsub,
                app |-> Append(acc.app, SubscriptionEvent("Subscribed", p, t))]
       ELSE [s |-> [S1 EXCEPT !.topic_peers[t] = @ \ {p}, !.peer_topics[p] = @ \ {t}],
             graft |-> acc.graft,
             unsub |-> Append(acc.unsub, t),
             app |-> Append(acc.app, SubscriptionEvent("Unsubscribed", p, t))]

handle_received_subscriptions(S, subs, p) ==
    IF ~Has(S.peer_topics, p) THEN S
    ELSE LET f == filter_incoming_subscriptions(subs)
             r == FoldSeq(LAMBDA acc, t: handle_subscription(acc, p, f[t]),
                          [s |-> S, graft |-> <<>>, unsub |-> <<>>, app |-> <<>>],
                          TopicSeq(DOMAIN f))
             S1 == FoldSeq(LAMBDA s, t: IfAlive(s, LAMBDA x:
                               remove_peer_from_mesh(x, p, t, None, FALSE)),
                           r.s, r.unsub)
             S2 == IF r.graft = <<>> THEN S1
                   ELSE IfAlive(S1, LAMBDA x:
                          peer_added_to_mesh(x, p, {r.graft[i] : i \in 1..Len(r.graft)}))
             S3 == IF r.graft = <<>> THEN S2
                   ELSE IfAlive(S2, LAMBDA x:
                          send_control_rpc_message(x, p,
                              [i \in 1..Len(r.graft) |-> Graft(r.graft[i])]).s)
         IN IfAlive(S3, LAMBDA x: [x EXCEPT !.events = @ \o r.app])

\* ------------------------------------------------------------------------
\* GRAFT, PRUNE
\* ------------------------------------------------------------------------
graft_flood_threshold == 1

\* faulty variant of graft_one: the backoff of the peer is not looked at
graft_one_no_backoff(acc, p, t, below_zero) ==
    LET S == acc.s
    IN IF S.panicked THEN acc
       ELSE IF ~Has(S.mesh, t) THEN [acc EXCEPT !.px = FALSE]
       ELSE IF p \in S.mesh[t] THEN acc
       ELSE IF below_zero
       THEN [s |-> S, prune |-> acc.prune \cup {t}, px |-> FALSE]
       ELSE IF Cardinality(S.mesh[t]) >= S.cfg.mesh_n_high /\ ~is_outbound(S, p)
       THEN [acc EXCEPT !.prune = @ \cup {t}]
       ELSE [acc EXCEPT !.s = peer_added_to_mesh([S EXCEPT !.mesh[t] = @ \cup {p}], p, {t})]

graft_one(acc, p, t, below_zero) ==
    LET S == acc.s
    IN IF S.panicked THEN acc
       ELSE IF ~Has(S.mesh, t) THEN [acc EXCEPT !.px = FALSE]
       ELSE IF p \in S.mesh[t] THEN acc
       ELSE IF get_backoff_time(S, t, p) > 0
       THEN LET S1 == peer_score_add_penalty(S, p, 1)
                S2 == IF get_backoff_time(S, t, p) + graft_flood_threshold - prune_backoff > 0
                      THEN peer_score_add_penalty(S1, p, 1) ELSE S1
            IN [s |-> S2, prune |-> acc.prune \cup {t}, px |-> FALSE]
       ELSE IF below_zero
       THEN [s |-> S, prune |-> acc.prune \cup {t}, px |-> FALSE]
       ELSE IF Cardinality(S.mesh[t]) >= S.cfg.mesh_n_high /\ ~is_outbound(S, p)
       THEN [acc EXCEPT !.prune = @ \cup {t}]
       ELSE [acc EXCEPT !.s = peer_added_to_mesh([S EXCEPT !.mesh[t] = @ \cup {p}], p, {t})]

\* the PRUNE answer of handle_graft: one make_prune per refused topic
RECURSIVE make_prunes(_, _, _, _, _)
make_prunes(SS, p, topics, px, on_unsubscribe) ==
    IF topics = <<>> THEN SS
    ELSE make_prunes(
           UNION {{[s |-> r.s, cs |-> Append(x.cs, r.c)]
                     : r \in make_prune(x.s, Head(topics), p, px, on_unsubscribe)} : x \in SS},
           p, Tail(topics), px, on_unsubscribe)

graft_prune(S, p, to_prune_topics, px) ==
    IF to_prune_topics = {} \/ S.panicked THEN {S}
    ELSE {send_control_rpc_message(x.s, p, x.cs).s
            : x \in make_prunes({[s |-> S, cs |-> <<>>]}, p, TopicSeq(to_prune_topics), px, FALSE)}

\* faulty variant of handle_graft: the grafting peer is not recorded as a
\* subscriber of the topics
handle_graft_unrecorded(S, p, topics) ==
    LET S0 == [S EXCEPT !.last.grafts = @ \o topics]
    IN IF p \in S0.explicit_peers
       THEN graft_prune(S0, p, {topics[i] : i \in 1..Len(topics)}, FALSE)
       ELSE LET bz == score_below_threshold(S0, p, 0)
                r == FoldSeq(LAMBDA acc, t: graft_one(acc, p, t, bz),
                             [s |-> S0, prune |-> {}, px |-> do_px], topics)
            IN graft_prune(r.s, p, r.prune, r.px)

handle_graft(S, p, topics) ==
    LET S0 == FoldSeq(LAMBDA s, t:
                        [s EXCEPT !.peer_topics = Put(@, p, GetOr(@, p, {}) \cup {t}),
                                  !.topic_peers = Put(@, t, GetOr(@, t, {}) \cup {p})],
                      [S EXCEPT !.last.grafts = @ \o topics], topics)
    IN IF p \in S0.explicit_peers
       THEN graft_prune(S0, p, {topics[i] : i \in 1..Len(topics)}, FALSE)
       ELSE LET bz == score_below_threshold(S0, p, 0)
                r == FoldSeq(LAMBDA acc, t: graft_one(acc, p, t, bz),
                             [s |-> S0, prune |-> {}, px |-> do_px], topics)
            IN graft_prune(r.s, p, r.prune, r.px)

\* partial_shuffle followed by take(n): n entries of the list, taken from
\* distinct positions in any order
Injections(n, m) == {f \in [1..n -> 1..m] : \A i, j \in 1..n : i # j => f[i] # f[j]}
partial_shuffle_take(list, n) ==
    {[i \in 1..n |-> list[f[i]]] : f \in Injections(n, Len(list))}

\* px_connect: the records without a peer id are dropped, at most prune_peers
\* of the others are kept, and every record kept is dialled
DialEvent(p) == [type |-> "Dial", peer |-> p]
px_connect(S, px) ==
    LET kept == SelectSeq(px, LAMBDA x: x # None)
        n == S.cfg.prune_peers
    IN {[S EXCEPT !.px_peers = @ \cup {l[i][1] : i \in 1..Len(l)},
                  !.events = @ \o [i \in 1..Len(l) |-> DialEvent(l[i][1])]]
        : l \in IF Len(kept) > n THEN partial_shuffle_take(kept, n) ELSE {kept}}

\* faulty variant of handle_prune_one: the peer exchange is honoured
\* whatever the score of the sender
handle_prune_one_any_score(S, p, pr, below_threshold) ==
    LET S1 == remove_peer_from_mesh(S, p, pr.topic, pr.backoff, TRUE)
    IN IF S1.panicked THEN {S1}
       ELSE IF Has(S1.mesh, pr.topic) /\ pr.peers # <<>> /\ S.cfg.prune_peers > 0
       THEN px_connect(S1, pr.peers)
       ELSE {S1}

handle_prune_one(S, p, pr, below_threshold) ==
    LET S1 == remove_peer_from_mesh(S, p, pr.topic, pr.backoff, TRUE)
    IN IF S1.panicked THEN {S1}
       ELSE IF Has(S1.mesh, pr.topic) /\ pr.peers # <<>> /\ ~below_threshold /\ S.cfg.prune_peers > 0
       THEN px_connect(S1, pr.peers)
       ELSE {S1}

handle_prune(S, p, prune_data) ==
    LET below == score_below_threshold(S, p, accept_px_threshold)
    IN ForEach(LAMBDA s, pr: handle_prune_one(s, p, pr, below), {S}, prune_data)

\* ------------------------------------------------------------------------
\* IHAVE, IWANT
\* ------------------------------------------------------------------------
RECURSIVE SetToSeq(_)
SetToSeq(X) ==
    IF X = {} THEN <<>> ELSE LET x == CHOOSE y \in X : TRUE IN <<x>> \o SetToSeq(X \ {x})
SeqToSet(seq) == {seq[i] : i \in 1..Len(seq)}

want_message(S, id) ==
    /\ ~SeqContains(S.duplicate_cache, id)
    /\ id \notin S.pending_iwant_msgs
    /\ promises_contains(S, id)

\* faulty variant of handle_ihave: every wanted id is requested, the ids
\* already requested from the peer are not counted
handle_ihave_unlimited(S, p, ihave_msgs) ==
    IF score_below_threshold(S, p, gossip_threshold) THEN {S}
    ELSE LET peer_have == GetOr(S.count_received_ihave, p, 0) + 1
             S1 == [S EXCEPT !.count_received_ihave = Put(@, p, peer_have)]
             iwant_ids == UNION {{id \in SeqToSet(ihave_msgs[i].ids) : want_message(S, id)}
                                  : i \in {j \in 1..Len(ihave_msgs) :
                                              Has(S.mesh, ihave_msgs[j].topic)}}
             iasked == GetOr(S.count_sent_iwant, p, 0)
         IN IF peer_have > max_ihave_messages THEN {S1}
            ELSE IF iwant_ids = {} THEN {S1}
            ELSE {control_pool_add(
                    promises_add(
                      [S1 EXCEPT !.count_sent_iwant = Put(@, p, iasked + Cardinality(iwant_ids)),
                                 !.pending_iwant_msgs = @ \cup iwant_ids],
                      p, iwant_ids),
                    p, IWant(SetToSeq(iwant_ids)))}

handle_ihave(S, p, ihave_msgs) ==
    IF score_below_threshold(S, p, gossip_threshold) THEN {S}
    ELSE LET peer_have == GetOr(S.count_received_ihave, p, 0) + 1
             S1 == [S EXCEPT !.count_received_ihave = Put(@, p, peer_have)]
             iwant_ids == UNION {{id \in SeqToSet(ihave_msgs[i].ids) : want_message(S, id)}
                                  : i \in {j \in 1..Len(ihave_msgs) :
                                              Has(S.mesh, ihave_msgs[j].topic)}}
             iasked == GetOr(S.count_sent_iwant, p, 0)
             iask == IF iasked + Cardinality(iwant_ids) > max_ihave_length
                     THEN Max2(max_ihave_length - iasked, 0)
                     ELSE Cardinality(iwant_ids)
         IN IF peer_have > max_ihave_messages THEN {S1}
            ELSE IF Has(S.count_sent_iwant, p) /\ iasked >= max_ihave_length THEN {S1}
            ELSE IF iwant_ids = {} THEN {S1}
            ELSE {control_pool_add(
                    promises_add(
                      [S1 EXCEPT !.count_sent_iwant = Put(@, p, iasked + iask),
                                 !.pending_iwant_msgs = @ \cup X],
                      p, X),
                    p, IWant(SetToSeq(X)))
                  : X \in {Y \in SUBSET iwant_ids : Cardinality(Y) = iask}}

\* faulty variant of iwant_lookup: one retransmission more is granted
iwant_lookup_one_more(acc, p, id) ==
    LET r == mcache_get_with_iwant_counts(acc.s.mcache, id, p)
    IN [s |-> [acc.s EXCEPT !.mcache = r.mc],
        msgs |-> IF r.found /\ r.count <= gossip_retransimission + 1
                    /\ ~SeqContains(acc.msgs, acc.s.mcache.msgs[id].msg)
                 THEN Append(acc.msgs, acc.s.mcache.msgs[id].msg)
                 ELSE acc.msgs]

iwant_lookup(acc, p, id) ==
    LET r == mcache_get_with_iwant_counts(acc.s.mcache, id, p)
    IN [s |-> [acc.s EXCEPT !.mcache = r.mc],
        msgs |-> IF r.found /\ r.count <= gossip_retransimission
                    /\ ~SeqContains(acc.msgs, acc.s.mcache.msgs[id].msg)
                 THEN Append(acc.msgs, acc.s.mcache.msgs[id].msg)
                 ELSE acc.msgs]

\* the cached messages are sent in one RPC; when send_rpc_message refuses it
\* (MessageTooLarge) nothing is sent and only the error is logged
handle_iwant(S, p, iwant_msgs) ==
    IF score_below_threshold(S, p, gossip_threshold) THEN S
    ELSE LET r == FoldSeq(LAMBDA acc, id: iwant_lookup(acc, p, id),
                          [s |-> S, msgs |-> <<>>], iwant_msgs)
         IN IF r.msgs = <<>> THEN r.s
            ELSE With(send_rpc_message(r.s, p,
                        RpcToProto([subscriptions |-> <<>>, messages |-> r.msgs,
                                    control_msgs |-> <<>>])),
                      LAMBDA q: IF ~q.ok THEN q.s
                                ELSE [q.s EXCEPT !.last.sent =
                                                     @ \o [i \in 1..Len(r.msgs) |-> p]])

\* ------------------------------------------------------------------------
\* handle_received_rpc
\* ------------------------------------------------------------------------
max_messages_per_rpc == None

\* faulty variant of valid_messages: nothing is filtered out
all_messages(cfg, msgs) == msgs

valid_messages(cfg, msgs) ==
    SelectSeq(msgs, LAMBDA m: validate_message_proto(m) /\ validate(cfg.validation_mode, m))
invalid_messages(cfg, msgs) ==
    SelectSeq(msgs, LAMBDA m: ~(validate_message_proto(m) /\ validate(cfg.validation_mode, m)))

\* the RawMessage kept of an invalid message: topic and data when the
\* validator refused it, nothing when the protobuf was refused
invalid_raw_message(m) ==
    IF validate_message_proto(m) THEN RawMessage(None, m.data, None, m.topic, None, None)
    ELSE RawMessage(None, "", None, "", None, None)
validation_error(cfg, m) ==
    IF validate_message_proto(m) THEN validate_result(cfg.validation_mode, m)
    ELSE validate_message_proto_result(m)

handle_messages(S, p, msgs) ==
    LET valid == valid_messages(S.cfg, msgs)
        taken == IF max_messages_per_rpc = None THEN valid
                 ELSE SubSeq(valid, 1, Min2(Len(valid), max_messages_per_rpc[1]))
        S1 == FoldSeq(LAMBDA s, m:
                        Outcome(handle_invalid_message(s, p, invalid_raw_message(m),
                                                       validation_error(S.cfg, m)),
                                None, m, "malformed"),
                      S, invalid_messages(S.cfg, msgs))
    IN FoldSeq(LAMBDA s, m: handle_received_message(s, m, p), S1, taken)

\* PeerInfo::try_from unwraps the peer id of every PX record
px_unwrap_panics(prune) ==
    \E i \in 1..Len(prune) : \E j \in 1..Len(prune[i].peers) : prune[i].peers[j] = None

prune_data(prune) ==
    [i \in 1..Len(prune) |->
        [prune[i] EXCEPT !.peers = SelectSeq(@, LAMBDA x: x[1] # "badid")]]

handle_control(S, p, control) ==
    IF control = None THEN {S}
    ELSE LET c == control[1]
         IN Then(Then(Then({FoldSeq(LAMBDA s, w: handle_iwant(s, p, w.ids), S, c.iwant)},
                           LAMBDA s: IF c.ihave = <<>> THEN {s}
                                     ELSE handle_ihave(s, p, c.ihave)),
                      LAMBDA s: IF c.graft = <<>> THEN {s}
                                ELSE handle_graft(s, p, [i \in 1..Len(c.graft) |->
                                                           c.graft[i].topic])),
                 LAMBDA s: IF c.prune = <<>> THEN {s}
                           ELSE IF px_unwrap_panics(c.prune) THEN {Panic(s)}
                           ELSE handle_prune(s, p, prune_data(c.prune)))

handle_received_rpc(S, p, rpc) ==
    With(IF rpc.subscriptions # <<>>
         THEN handle_received_subscriptions(S, rpc.subscriptions, p)
         ELSE S,
         LAMBDA S1:
           IF S1.panicked THEN {S1}
           ELSE IF score_below_threshold(S1, p, graylist_threshold) THEN {S1}
           ELSE handle_control(handle_messages(S1, p, rpc.publish), p, rpc.control))

\* ------------------------------------------------------------------------
\* Heartbeat
\* ------------------------------------------------------------------------
check_explicit_peers_ticks == 2
gossip_factor_den == 4

check_explicit_peer_connection(S, p) ==
    IF ~Has(S.peer_topics, p) THEN [S EXCEPT !.events = Append(@, DialEvent(p))] ELSE S

\* the scores cached at the start of the heartbeat
hb_score(S, p) == IF Has(S.connected_peers, p) THEN peer_score_metric_score(S, p) ELSE 0

AddTopic(m, peers, t) ==
    FoldSeq(LAMBDA acc, p: Put(acc, p, Append(GetOr(acc, p, <<>>), t)), m, peers)

\* backoffs, IHAVE counters, broken promises, explicit peers
hb_start(S, ticks, broken) ==
    LET S1 == [backoffs_heartbeat(S) EXCEPT !.count_sent_iwant = EmptyMap,
                                            !.count_received_ihave = EmptyMap,
                                            !.promises = @ \ broken]
        S2 == FoldSeq(LAMBDA s, p: peer_score_add_penalty(s, p, broken_promises(broken)[p]),
                      S1, PeerSeq(DOMAIN broken_promises(broken)))
    IN IF ticks % check_explicit_peers_ticks = 0
       THEN FoldSeq(LAMBDA s, p: check_explicit_peer_connection(s, p), S2,
                    PeerSeq(S2.explicit_peers))
       ELSE S2

Perms(X) == {f \in [1..Cardinality(X) -> X] : \A i, j \in 1..Cardinality(X) : i # j => f[i] # f[j]}

\* faulty variant of hb_prune_orders: the peers are only shuffled
hb_prune_orders_shuffled(S, peers) == Perms(peers)

\* shuffle, sort by score, shuffle all but the best retain_scores peers
hb_prune_orders(S, peers) ==
    LET n == Cardinality(peers)
        sorted == {g \in Perms(peers) :
                     \A i \in 1..(n - 1) : hb_score(S, g[i]) <= hb_score(S, g[i + 1])}
    IN {f \in Perms(peers) :
          \E g \in sorted : \A i \in (n - S.cfg.retain_scores + 1)..n : f[i] = g[i]}

\* faulty variant of hb_excess_removed: an oversized mesh is not trimmed
hb_excess_kept(S, order, excess_peer_no) == {}

\* faulty variant of hb_excess_removed: the walk does not stop after
\* excess_peer_no removals
hb_excess_removed_unbounded(S, order, excess_peer_no) ==
    FoldSeq(LAMBDA acc, p:
              IF is_outbound(S, p) /\ acc.outbound <= S.cfg.mesh_outbound_min THEN acc
              ELSE [removed |-> acc.removed \cup {p},
                    outbound |-> IF is_outbound(S, p) THEN acc.outbound - 1 ELSE acc.outbound],
            [removed |-> {},
             outbound |-> Cardinality({p \in SeqToSet(order) : is_outbound(S, p)})],
            order).removed

\* the peers removed from an oversized mesh when it is walked in `order`
hb_excess_removed(S, order, excess_peer_no) ==
    FoldSeq(LAMBDA acc, p:
              IF Cardinality(acc.removed) = excess_peer_no THEN acc
              ELSE IF is_outbound(S, p) /\ acc.outbound <= S.cfg.mesh_outbound_min THEN acc
              ELSE [removed |-> acc.removed \cup {p},
                    outbound |-> IF is_outbound(S, p) THEN acc.outbound - 1 ELSE acc.outbound],
            [removed |-> {},
             outbound |-> Cardinality({p \in SeqToSet(order) : is_outbound(S, p)})],
            order).removed

hb_graft_filter(S, t, peers) ==
    {p \in Peers : /\ p \notin peers
                   /\ p \notin S.explicit_peers
                   /\ ~is_backoff_with_slack(S, t, p)
                   /\ hb_score(S, p) >= 0}

\* mesh maintenance of one topic
hb_mesh_topic(acc, t) ==
    LET S == acc.s
        bad == {p \in S.mesh[t] : hb_score(S, p) < 0}
        peers1 == S.mesh[t] \ bad
        lows == IF Cardinality(peers1) < S.cfg.mesh_n_low
                THEN get_random_peers(S, t, S.cfg.mesh_n - Cardinality(peers1),
                                      hb_graft_filter(S, t, peers1))
                ELSE {{}}
        \* shuffled[..peers.len() - retain_scores] is out of range when
        \* retain_scores exceeds the size of the mesh
        removals(peers2) ==
            IF Cardinality(peers2) > S.cfg.mesh_n_high
               /\ S.cfg.retain_scores <= Cardinality(peers2)
            THEN {hb_excess_removed(S, o, Cardinality(peers2) - S.cfg.mesh_n)
                    : o \in hb_prune_orders(S, peers2)}
            ELSE {{}}
        outbounds(peers3) ==
            LET outbound == Cardinality({p \in peers3 : is_outbound(S, p)})
            IN IF Cardinality(peers3) >= S.cfg.mesh_n_low /\ outbound < S.cfg.mesh_outbound_min
               THEN get_random_peers(S, t, S.cfg.mesh_outbound_min - outbound,
                       {p \in hb_graft_filter(S, t, peers3) : is_outbound(S, p)})
               ELSE {{}}
    IN UNION {UNION {{[panicked |-> Cardinality(peers1 \cup low) > S.cfg.mesh_n_high
                                     /\ S.cfg.retain_scores > Cardinality(peers1 \cup low),
                       s |-> [S EXCEPT !.mesh[t] = ((peers1 \cup low) \ rem) \cup out],
                       to_graft |-> AddTopic(AddTopic(acc.to_graft, PeerSeq(low), t),
                                             PeerSeq(out), t),
                       to_prune |-> AddTopic(AddTopic(acc.to_prune, PeerSeq(bad), t),
                                             PeerSeq(rem), t),
                       no_px |-> acc.no_px \cup bad]
                      : out \in outbounds((peers1 \cup low) \ rem)}
                     : rem \in removals(peers1 \cup low)}
              : low \in lows}

\* fanout expiry and maintenance of one fanout topic
hb_fanout_topic(S, t) ==
    LET thr == service_publish_threshold(S)
        gone == {p \in S.fanout[t] :
                   \/ ~Has(S.peer_topics, p)
                   \/ t \notin S.peer_topics[p]
                   \/ hb_score(S, p) < thr}
        peers == S.fanout[t] \ gone
        news == IF Cardinality(peers) < S.cfg.mesh_n
                THEN get_random_peers(S, t, S.cfg.mesh_n - Cardinality(peers),
                        {p \in Peers : /\ p \notin peers
                                       /\ p \notin S.explicit_peers
                                       /\ hb_score(S, p) < thr})
                ELSE {{}}
    IN {[S EXCEPT !.fanout[t] = peers \cup new] : new \in news}

hb_fanout(S, expired) ==
    LET dead == {t \in S.fanout_last_pub : t \in expired}
        S1 == [S EXCEPT !.fanout = [t \in (DOMAIN @) \ dead |-> @[t]],
                        !.fanout_last_pub = @ \ dead]
    IN ForEach(LAMBDA s, t: hb_fanout_topic(s, t), {S1}, TopicSeq(DOMAIN S1.fanout))

\* emit_gossip for one topic with the peers of its mesh or fanout
emit_gossip_topic(S, t, peers) ==
    LET message_ids == mcache_get_gossip_message_ids(S.mcache, t)
        n_map == [m \in 0..Cardinality(Peers) |-> Max2(gossip_lazy, m \div gossip_factor_den)]
        to_msg_peers ==
            get_random_peers_dynamic(S, t, n_map,
                {p \in Peers : /\ p \notin peers
                               /\ p \notin S.explicit_peers
                               /\ ~score_below_threshold(S, p, gossip_threshold)})
        lists == IF Len(message_ids) > max_ihave_length
                 THEN {SelectSeq(message_ids, LAMBDA id: id \in X)
                         : X \in {Y \in SUBSET SeqToSet(message_ids) :
                                    Cardinality(Y) = max_ihave_length}}
                 ELSE {message_ids}
    IN IF message_ids = <<>> THEN {S}
       ELSE UNION {ForEach(LAMBDA s, p: {control_pool_add(s, p, IHave(t, l)) : l \in lists},
                           {S}, PeerSeq(ps))
                   : ps \in to_msg_peers}

emit_gossip(S) ==
    ForEach(LAMBDA s, t: emit_gossip_topic(s, t, s.fanout[t]),
            ForEach(LAMBDA s, t: emit_gossip_topic(s, t, s.mesh[t]), {S}, TopicSeq(DOMAIN S.mesh)),
            TopicSeq(DOMAIN S.fanout))

\* send_graft_prune: grafts with the prunes of the same peer, then the
\* remaining prunes
sgp_graft_peer(S, p, to_graft, to_prune, no_px) ==
    LET S1 == FoldSeq(LAMBDA s, t: IfAlive(s, LAMBDA x: peer_added_to_mesh(x, p, {t})),
                      S, to_graft[p])
        grafts == [i \in 1..Len(to_graft[p]) |-> Graft(to_graft[p][i])]
    IN IF S1.panicked THEN {S1}
       ELSE {send_control_rpc_message(x.s, p, grafts \o x.cs).s
               : x \in make_prunes({[s |-> S1, cs |-> <<>>]}, p, GetOr(to_prune, p, <<>>),
                                   do_px /\ p \notin no_px, FALSE)}

RECURSIVE sgp_prunes(_, _, _, _)
sgp_prunes(SS, p, topics, px) ==
    IF topics = <<>> THEN SS
    ELSE sgp_prunes(
           UNION {IF x.s.panicked THEN {x}
                  ELSE {[s |-> peer_removed_from_mesh(r.s, p, Head(topics)),
                         cs |-> Append(x.cs, r.c)]
                          : r \in make_prune(x.s, Head(topics), p, px, FALSE)}
                  : x \in SS},
           p, Tail(topics), px)

sgp_prune_peer(S, p, to_prune, no_px) ==
    {IF x.s.panicked THEN x.s ELSE send_control_rpc_message(x.s, p, x.cs).s
       : x \in sgp_prunes({[s |-> S, cs |-> <<>>]}, p, to_prune[p], do_px /\ p \notin no_px)}

send_graft_prune(S, to_graft, to_prune, no_px) ==
    ForEach(LAMBDA s, p: sgp_prune_peer(s, p, to_prune, no_px),
            ForEach(LAMBDA s, p: sgp_graft_peer(s, p, to_graft, to_prune, no_px),
                    {S}, PeerSeq(DOMAIN to_graft)),
            PeerSeq((DOMAIN to_prune) \ (DOMAIN to_graft)))

flush_control_pool(S) ==
    [FoldSeq(LAMBDA s, p: send_control_rpc_message(s, p, S.control_pool[p]).s,
             S, PeerSeq(DOMAIN S.control_pool))
       EXCEPT !.control_pool = EmptyMap, !.pending_iwant_msgs = {}]

hb_finish(S) == [flush_control_pool(S) EXCEPT !.mcache = mcache_shift(@)]

on_heartbeat(S, ticks, broken, expired) ==
    LET S0 == hb_start(S, ticks, broken)
        M == ForEach(LAMBDA acc, t: hb_mesh_topic(acc, t),
                     {[s |-> S0, to_graft |-> EmptyMap, to_prune |-> EmptyMap, no_px |-> {},
                       panicked |-> FALSE]},
                     TopicSeq(DOMAIN S0.mesh))
    IN UNION {
         IF m.panicked THEN {Panic(m.s)} ELSE
         Then(Then(Then(hb_fanout(m.s, expired), emit_gossip),
                   LAMBDA s: IF m.to_graft # EmptyMap \/ m.to_prune # EmptyMap
                             THEN send_graft_prune(s, m.to_graft, m.to_prune, m.no_px)
                             ELSE {s}),
              LAMBDA s: {hb_finish(s)})
         : m \in M}

\* ------------------------------------------------------------------------
\* Connections
\* ------------------------------------------------------------------------
on_connection_established(S, p, c, dialer) ==
    LET other_established == Len(connections(S, p))
        outbound == dialer /\ other_established = 0 /\ p \notin S.px_peers
        S1 == track_connection(S, p, c, "Floodsub", outbound)
        subs == [i \in 1..Len(TopicSeq(DOMAIN S.mesh)) |->
                    Subscription("Subscribe", TopicSeq(DOMAIN S.mesh)[i])]
        S2 == IF p \notin S.blacklisted_peers /\ subs # <<>>
              THEN send_subscription_rpc_message(S1, p, subs).s
              ELSE S1
    IN IF other_established = 0
       THEN [S2 EXCEPT !.peer_topics = Put(@, p, {})]
       ELSE S1

\* the outcomes of on_connection_closed: when the last connection of a peer
\* without an entry in peer_topics closes, the debug_assert on the blacklist
\* aborts the build that keeps debug assertions and is absent from the
\* build that drops them
on_connection_closed(S, p, c) ==
    LET remaining_established == Len(connections(S, p)) - 1
    IN IF remaining_established # 0
       THEN LET S1 == remove_connection(S, p, c)
            IN IF connections(S1, p) # <<>> /\ in_other_mesh(S1, p, {})
               THEN {[S1 EXCEPT !.events = Append(@,
                        [type |-> "JoinedMesh", peer |-> p, conn |-> connections(S1, p)[1]])]}
               ELSE {S1}
       ELSE IF ~Has(S.peer_topics, p)
       THEN IF p \in S.blacklisted_peers THEN {S} ELSE {Panic(S), S}
       ELSE LET topics == S.peer_topics[p]
                drop(m) == [t \in DOMAIN m |-> IF t \in topics THEN m[t] \ {p} ELSE m[t]]
            IN {remove_peer(
                 [S EXCEPT !.mesh = drop(@), !.topic_peers = drop(@), !.fanout = drop(@),
                           !.px_peers = @ \ {p},
                           !.peer_topics = Del(@, p)], p)}

\* with_peer_score and with_peer_score_and_message_delivery_time_callback:
\* valid parameters and thresholds install a new scoring service, with no
\* score and no promise recorded, in the place of the service in use
with_peer_score(S, valid) ==
    IF ~valid THEN SetResult(S, "Err")
    ELSE SetResult([S EXCEPT !.cfg.scoring = TRUE,
                             !.score = [p \in DOMAIN @ |-> 0],
                             !.promises = {}], "Ok")

\* faulty variant of on_peer_kind: a peer is reported to the application once
\* while its event is queued
on_peer_kind_once(S, p, k) ==
    IF k = "NotSupported"
    THEN IF SeqContains(S.events, [type |-> "GossipsubNotSupported", peer |-> p]) THEN S
         ELSE [S EXCEPT !.events = Append(@, [type |-> "GossipsubNotSupported", peer |-> p])]
    ELSE IF kind(S, p) # None /\ is_floodsub(kind(S, p)[1]) THEN set_kind(S, p, k)
    ELSE S

\* HandlerEvent::PeerKind
on_peer_kind(S, p, k) ==
    IF k = "NotSupported"
    THEN [S EXCEPT !.events = Append(@, [type |-> "GossipsubNotSupported", peer |-> p])]
    ELSE IF kind(S, p) # None /\ is_floodsub(kind(S, p)[1]) THEN set_kind(S, p, k)
    ELSE S

\* explicit peers and the blacklist
add_explicit_peer(S, p) ==
    check_explicit_peer_connection([S EXCEPT !.explicit_peers = @ \cup {p}], p)
remove_explicit_peer(S, p) == [S EXCEPT !.explicit_peers = @ \ {p}]
blacklist_peer(S, p) == [S EXCEPT !.blacklisted_peers = @ \cup {p}]
remove_blacklisted_peer(S, p) == [S EXCEPT !.blacklisted_peers = @ \ {p}]

\* ------------------------------------------------------------------------
\* State: the fields of Behaviour, the scoring service, and the ghosts
\* ------------------------------------------------------------------------
VARIABLES
    cfg, events, control_pool, duplicate_cache, fast_message_id_cache,
    topic_peers, peer_topics, explicit_peers, blacklisted_peers, mesh, fanout,
    fanout_last_pub, backoffs, mcache, px_peers, count_received_ihave,
    count_sent_iwant, pending_iwant_msgs, connected_peers, outbound_peers,
    published_message_ids, seqno, score, promises, panicked,
    last, seen, accepted, published,
    remote

vars == <<cfg, events, control_pool, duplicate_cache, fast_message_id_cache,
          topic_peers, peer_topics, explicit_peers, blacklisted_peers, mesh, fanout,
          fanout_last_pub, backoffs, mcache, px_peers, count_received_ihave,
          count_sent_iwant, pending_iwant_msgs, connected_peers, outbound_peers,
          published_message_ids, seqno, score, promises, panicked,
          last, seen, accepted, published, remote>>

\* the router state as the record the handlers work on
Cur(op, p, t) ==
    [cfg |-> cfg, events |-> events, control_pool |-> control_pool,
     duplicate_cache |-> duplicate_cache, fast_message_id_cache |-> fast_message_id_cache,
     topic_peers |-> topic_peers, peer_topics |-> peer_topics,
     explicit_peers |-> explicit_peers, blacklisted_peers |-> blacklisted_peers,
     mesh |-> mesh, fanout |-> fanout, fanout_last_pub |-> fanout_last_pub,
     backoffs |-> backoffs, mcache |-> mcache, px_peers |-> px_peers,
     count_received_ihave |-> count_received_ihave, count_sent_iwant |-> count_sent_iwant,
     pending_iwant_msgs |-> pending_iwant_msgs, connected_peers |-> connected_peers,
     outbound_peers |-> outbound_peers, published_message_ids |-> published_message_ids,
     seqno |-> seqno, score |-> score, promises |-> promises, panicked |-> panicked,
     last |-> NewLast(op, p, t)]

\* the state that a handler leaves becomes the state of the router
CommitLocal(x) ==
    \E s \in {x} :
      /\ cfg' = s.cfg /\ events' = s.events /\ control_pool' = s.control_pool
      /\ duplicate_cache' = s.duplicate_cache
      /\ fast_message_id_cache' = s.fast_message_id_cache
      /\ topic_peers' = s.topic_peers /\ peer_topics' = s.peer_topics
      /\ explicit_peers' = s.explicit_peers /\ blacklisted_peers' = s.blacklisted_peers
      /\ mesh' = s.mesh /\ fanout' = s.fanout /\ fanout_last_pub' = s.fanout_last_pub
      /\ backoffs' = s.backoffs /\ mcache' = s.mcache /\ px_peers' = s.px_peers
      /\ count_received_ihave' = s.count_received_ihave
      /\ count_sent_iwant' = s.count_sent_iwant
      /\ pending_iwant_msgs' = s.pending_iwant_msgs
      /\ connected_peers' = s.connected_peers /\ outbound_peers' = s.outbound_peers
      /\ published_message_ids' = s.published_message_ids
      /\ seqno' = s.seqno /\ score' = s.score /\ promises' = s.promises
      /\ panicked' = s.panicked /\ last' = s.last

\* a step of this node leaves the node at the other end of the connection
\* as it is
Commit(s) == CommitLocal(s) /\ UNCHANGED remote

Config(signer, mode, idfn, validate_messages, allow_self_origin, flood_publish, scoring, fast_id) ==
    [signer |-> signer, validation_mode |-> mode, idfn |-> idfn,
     validate_messages |-> validate_messages, allow_self_origin |-> allow_self_origin,
     flood_publish |-> flood_publish, scoring |-> scoring, fast_id |-> fast_id,
     mesh_n |-> mesh_n, mesh_n_low |-> mesh_n_low, mesh_n_high |-> mesh_n_high,
     mesh_outbound_min |-> mesh_outbound_min, retain_scores |-> retain_scores,
     prune_peers |-> prune_peers]

\* ConfigBuilder setters of the mesh sizing policy
MeshConfig(c, n, low, high, outbound_min, retain) ==
    [c EXCEPT !.mesh_n = n, !.mesh_n_low = low, !.mesh_n_high = high,
              !.mesh_outbound_min = outbound_min, !.retain_scores = retain]

\* ConfigBuilder setter of the number of peers taken from a peer exchange
PxConfig(c, n) == [c EXCEPT !.prune_peers = n]

\* the state after Behaviour::new_with_subscription_filter_and_transform
InitLocal(configs) ==
    /\ cfg \in {c \in configs : validate_config(c.signer, c.validation_mode)}
    /\ events = <<>> /\ control_pool = EmptyMap
    /\ duplicate_cache = <<>> /\ fast_message_id_cache = EmptyMap
    /\ topic_peers = EmptyMap /\ peer_topics = EmptyMap
    /\ explicit_peers = {} /\ blacklisted_peers = {}
    /\ mesh = EmptyMap /\ fanout = EmptyMap /\ fanout_last_pub = {}
    /\ backoffs = EmptyMap /\ mcache = NewMessageCache /\ px_peers = {}
    /\ count_received_ihave = EmptyMap /\ count_sent_iwant = EmptyMap
    /\ pending_iwant_msgs = {}
    /\ connected_peers = EmptyMap /\ outbound_peers = {}
    /\ published_message_ids = <<>> /\ seqno = 0
    /\ score = [p \in Peers |-> 0] /\ promises = {} /\ panicked = FALSE
    /\ last = NewLast("new", "", "")
    /\ seen = {} /\ accepted = {} /\ published = {}

\* one node alone: the peers are inputs
InitWith(configs) == InitLocal(configs) /\ remote = None

\* ------------------------------------------------------------------------
\* Inputs
\* ------------------------------------------------------------------------
MsgAnon(d) == RawMessage(None, d, None, "t1", None, None)
MsgFrom(src, seq, d, sig) == RawMessage(Some(src), d, Some(seq), "t1", Some(sig), None)
MsgUnsigned(src, seq, d) == RawMessage(Some(src), d, Some(seq), "t1", None, None)
MsgNoTopic == RawMessage(None, "d1", None, "", None, None)

Rpc(subs, msgs, control) == [subscriptions |-> subs, publish |-> msgs, control |-> control]
SubRpcs == {Rpc(<<Subscription(a, t)>>, <<>>, None) : a \in {"Subscribe", "Unsubscribe"}, t \in Topics}
MsgRpcs(ms) == {Rpc(<<>>, <<m>>, None) : m \in ms}
GraftRpcs == {Rpc(<<>>, <<>>, Some(ControlFromIter(<<Graft(t)>>))) : t \in Topics}
PruneRpcs(pxs, backoffs_in) ==
    {Rpc(<<>>, <<>>, Some(ControlFromIter(<<Prune(t, px, b)>>)))
       : t \in Topics, px \in pxs, b \in backoffs_in}
IHaveRpcs(ids) == {Rpc(<<>>, <<>>, Some(ControlFromIter(<<IHave(t, <<id>>)>>))) : t \in Topics, id \in ids}
IWantRpcs(ids) == {Rpc(<<>>, <<>>, Some(ControlFromIter(<<IWant(<<id>>)>>))) : id \in ids}

\* the counters of the handlers stay within the values the code compares with
RpcWithinBounds(p, rpc) ==
    rpc.control # None =>
      /\ rpc.control[1].ihave # <<>> => GetOr(count_received_ihave, p, 0) <= max_ihave_messages
      /\ \A i \in 1..Len(rpc.control[1].iwant) :
           \A id \in SeqToSet(rpc.control[1].iwant[i].ids) :
             GetOr(GetOr(mcache.iwant_counts, id, EmptyMap), p, 0) <= gossip_retransimission

\* ------------------------------------------------------------------------
\* Actions
\* ------------------------------------------------------------------------
Quiet == UNCHANGED <<seen, accepted, published>>

\* a handler runs when the process is alive and the swarm has drained the
\* event queue down to MaxPending events; the control pool has Room while the
\* heartbeat that flushes it is at most MaxPooled control actions late
Pooled == FoldSeq(LAMBDA n, p: n + Len(control_pool[p]), 0, PeerSeq(DOMAIN control_pool))
Ready == ~panicked /\ Len(events) <= MaxPending
Room == Pooled <= MaxPooled

\* the calls of the application; it makes them one after the other
SubscribeCall(t) ==
    /\ Room
    /\ \E s \in subscribe(Cur("subscribe", "", t), t) : Commit(s)
    /\ Quiet

UnsubscribeCall(t) ==
    /\ Room
    /\ \E s \in unsubscribe(Cur("unsubscribe", "", t), t) : Commit(s)
    /\ Quiet

PublishCall(t, d) ==
    /\ cfg.signer = "Signed" => seqno < MaxSeqNo
    /\ \E seq \in 1..MaxSeqNo, id \in RandomIds :
         \E s \in publish([Cur("publish", "", t) EXCEPT
                              !.last.flag = \E r \in published : r.topic = t /\ r.data = d],
                          t, d, [seq |-> seq, id |-> id]) :
           /\ Commit(s)
           /\ seen' = IF s.last.result = "Ok" THEN seen \cup {s.last.id} ELSE seen
           /\ published' = IF s.last.result = "Ok"
                           THEN published \cup {[topic |-> t, data |-> d, id |-> s.last.id]}
                           ELSE published
    /\ UNCHANGED accepted

Subscribe(t) == Ready /\ SubscribeCall(t)

Unsubscribe(t) == Ready /\ UnsubscribeCall(t)

Publish(t, d) == Ready /\ PublishCall(t, d)

ReportValidationResult(id, p, acceptance) ==
    /\ Ready
    /\ SeqContains(duplicate_cache, id)
    /\ \E s \in {report_message_validation_result(
                   [Cur("report", p, "") EXCEPT !.last.id = id, !.last.flag = acceptance = "Accept",
                                               !.last.acceptance = acceptance],
                   id, p, acceptance)} :
         /\ Commit(s)
         /\ accepted' = IF acceptance = "Accept" /\ s.last.result = "Ok(true)"
                        THEN accepted \cup {id} ELSE accepted
    /\ UNCHANGED <<seen, published>>

AddExplicitPeer(p) ==
    /\ Ready /\ p \notin explicit_peers
    /\ Commit(add_explicit_peer(Cur("add_explicit_peer", p, ""), p))
    /\ Quiet

RemoveExplicitPeer(p) ==
    /\ Ready /\ p \in explicit_peers
    /\ Commit(remove_explicit_peer(Cur("remove_explicit_peer", p, ""), p))
    /\ Quiet

BlacklistPeer(p) ==
    /\ Ready /\ p \notin blacklisted_peers
    /\ Commit(blacklist_peer(Cur("blacklist_peer", p, ""), p))
    /\ Quiet

\* the application activates the scoring service
WithPeerScore(valid) ==
    /\ Ready
    /\ Commit(with_peer_score(Cur("with_peer_score", "", ""), valid))
    /\ Quiet

RemoveBlacklistedPeer(p) ==
    /\ Ready /\ p \in blacklisted_peers
    /\ Commit(remove_blacklisted_peer(Cur("remove_blacklisted_peer", p, ""), p))
    /\ Quiet

ConnectionEstablished(p, c, dialer) ==
    /\ Ready
    /\ Len(connections(Cur("", "", ""), p)) < MaxConns
    /\ ~SeqContains(connections(Cur("", "", ""), p), c)
    /\ Commit(on_connection_established(Cur("connection_established", p, ""), p, c, dialer))
    /\ Quiet

ConnectionClosed(p, c) ==
    /\ Ready
    /\ SeqContains(connections(Cur("", "", ""), p), c)
    /\ \E s \in on_connection_closed(Cur("connection_closed", p, ""), p, c) : Commit(s)
    /\ Quiet

\* the report of a connection handler
PeerKindReport(p, k) ==
    /\ Has(connected_peers, p)
    /\ Commit(on_peer_kind([Cur("peer_kind", p, "") EXCEPT !.last.result = k], p, k))
    /\ Quiet

PeerKindEvent(p, k) == Ready /\ PeerKindReport(p, k)

ReceiveRpc(p, rpc) ==
    /\ Ready /\ Room
    /\ Has(connected_peers, p)
    /\ RpcWithinBounds(p, rpc)
    /\ \E s \in handle_received_rpc(Cur("rpc", p, ""), p, rpc) :
         /\ Commit(s)
         /\ seen' = seen \cup {s.last.outcomes[i].id :
                                 i \in {j \in 1..Len(s.last.outcomes) :
                                          s.last.outcomes[j].res \in {"cached", "delivered"}}}
    /\ UNCHANGED <<accepted, published>>

\* the heartbeat loop of poll: every tick that is due is served in turn,
\* each with the promises that have expired and the fanout topics that have
\* aged by then, and with the events of the earlier ticks still queued; the
\* states in which the loop can end when at most `due` ticks are due
RECURSIVE serve_ticks(_, _, _)
serve_ticks(S, ticks, due) ==
    UNION {UNION {IF due = 1 \/ s.panicked THEN {s}
                  ELSE {s} \cup serve_ticks(s, ticks + 1, due - 1)
                    : s \in on_heartbeat([S EXCEPT !.last.ticks = @ + 1],
                                          ticks, broken, expired)}
             : broken \in SUBSET S.promises, expired \in SUBSET S.fanout_last_pub}

\* poll finds no event queued and one or more ticks of the heartbeat due
Heartbeat ==
    /\ Ready
    /\ events = <<>>
    /\ \E ticks \in 0..(check_explicit_peers_ticks - 1) :
         \E s \in serve_ticks([Cur("heartbeat", "", "") EXCEPT !.last.flag = last.op = "heartbeat"],
                                ticks, MaxTicks) : Commit(s)
    /\ Quiet

\* poll hands the oldest queued event to the swarm
Poll ==
    /\ events # <<>>
    /\ Commit([Cur("poll", "", "") EXCEPT !.events = Tail(@)])
    /\ Quiet

\* the router that Behaviour::new_with_subscription_filter_and_transform builds
NewBehaviour(c) ==
    [cfg |-> c,
     events |-> <<>>, control_pool |-> EmptyMap,
     duplicate_cache |-> <<>>, fast_message_id_cache |-> EmptyMap,
     topic_peers |-> EmptyMap, peer_topics |-> EmptyMap,
     explicit_peers |-> {}, blacklisted_peers |-> {},
     mesh |-> EmptyMap, fanout |-> EmptyMap, fanout_last_pub |-> {},
     backoffs |-> EmptyMap, mcache |-> NewMessageCache, px_peers |-> {},
     count_received_ihave |-> EmptyMap, count_sent_iwant |-> EmptyMap,
     pending_iwant_msgs |-> {}, connected_peers |-> EmptyMap,
     outbound_peers |-> {}, published_message_ids |-> <<>>, seqno |-> 0,
     score |-> [p \in Peers |-> 0], promises |-> {}, panicked |-> FALSE,
     last |-> NewLast("new", "", "")]

\* Behaviour::new: a router of the given authenticity and validation mode
\* takes the place of the current one unless validate_config refuses the pair
New(signer, mode) ==
    /\ ~panicked
    /\ IF validate_config(signer, mode)
       THEN /\ Commit(
                 [NewBehaviour(Config(signer, mode, "deterministic",
                                      FALSE, FALSE, FALSE, FALSE, FALSE))
                    EXCEPT !.last.id = <<signer, mode>>, !.last.result = "Ok"])
            /\ seen' = {} /\ accepted' = {} /\ published' = {}
       ELSE /\ Commit([Cur("new", "", "") EXCEPT !.last.id = <<signer, mode>>,
                                                 !.last.result = "Err"])
            /\ Quiet

\* ------------------------------------------------------------------------
\* Two nodes: this node and the node at the other end of its connection,
\* each known to the other as peer "p1". What a node queues for the handler
\* of the connection is what the other node receives as an RPC
\* ------------------------------------------------------------------------
RemoteCur(op, p, t) == [remote EXCEPT !.last = NewLast(op, p, t)]
RemoteReady == ~remote.panicked /\ Len(remote.events) <= MaxPending
Still ==
    /\ CommitLocal([Cur("", "", "") EXCEPT !.last = last])
    /\ Quiet

\* the dial of this node succeeds: both swarms report the connection
PairConnect ==
    /\ Ready /\ RemoteReady
    /\ ~Has(connected_peers, "p1")
    /\ CommitLocal(on_connection_established(Cur("connection_established", "p1", ""), "p1", 1, TRUE))
    /\ remote' = on_connection_established(RemoteCur("connection_established", "p1", ""), "p1", 1, FALSE)
    /\ Quiet

RemotePeerKind(k) ==
    /\ RemoteReady /\ Has(remote.connected_peers, "p1")
    /\ remote' = on_peer_kind(RemoteCur("peer_kind", "p1", ""), "p1", k)
    /\ Still

RemoteSubscribe(t) ==
    /\ RemoteReady
    /\ \E s \in subscribe(RemoteCur("subscribe", "", t), t) : remote' = s
    /\ Still

RemotePublish(t, d) ==
    /\ RemoteReady
    /\ \E s \in publish(RemoteCur("publish", "", t), t, d, [seq |-> 1, id |-> "r1"]) : remote' = s
    /\ Still

\* poll: the swarm takes the RPC at the front of the queue to the handler of
\* the connection, and the other node receives it
DeliverToRemote ==
    /\ events # <<>> /\ Head(events).type = "HandlerMessage"
    /\ ~panicked /\ ~remote.panicked
    /\ \E s \in handle_received_rpc(RemoteCur("rpc", "p1", ""), "p1", Head(events).rpc) : remote' = s
    /\ CommitLocal([Cur("poll", "", "") EXCEPT !.events = Tail(@)])
    /\ Quiet

DeliverToLocal ==
    /\ remote.events # <<>> /\ Head(remote.events).type = "HandlerMessage"
    /\ ~panicked /\ ~remote.panicked
    /\ \E s \in handle_received_rpc(Cur("rpc", "p1", ""), "p1", Head(remote.events).rpc) :
         /\ CommitLocal(s)
         /\ seen' = seen \cup {s.last.outcomes[i].id :
                                 i \in {j \in 1..Len(s.last.outcomes) :
                                          s.last.outcomes[j].res \in {"cached", "delivered"}}}
    /\ remote' = [RemoteCur("poll", "", "") EXCEPT !.events = Tail(@)]
    /\ UNCHANGED <<accepted, published>>

\* poll: an event for the application or for the swarm
LocalPoll ==
    /\ events # <<>> /\ Head(events).type # "HandlerMessage"
    /\ Commit([Cur("poll", "", "") EXCEPT !.events = Tail(@)])
    /\ Quiet

RemotePoll ==
    /\ remote.events # <<>> /\ Head(remote.events).type # "HandlerMessage"
    /\ ~remote.panicked
    /\ remote' = [RemoteCur("poll", "", "") EXCEPT !.events = Tail(@)]
    /\ Still

\* send_message: the RPC is fragmented and each fragment queued for the
\* connection handler of the peer
SendRpc(p, rpc) ==
    /\ Ready
    /\ LET r == send_rpc_message([Cur("send_rpc", p, "") EXCEPT !.last.rpc = Some(rpc)], p, rpc)
       IN Commit(SetResult(r.s, IF r.ok THEN "Ok" ELSE "MessageTooLarge"))
    /\ Quiet

\* poll_ticker_refresh_scores: the scoring service recomputes a score
RefreshScores(p, v) ==
    /\ Ready /\ events = <<>>
    /\ cfg.scoring /\ Has(connected_peers, p) /\ score[p] # v
    /\ Commit([Cur("refresh_scores", p, "") EXCEPT !.score[p] = v])
    /\ Quiet

\* duplicate_cache_time has passed for the oldest entry of the duplicate cache
ExpireDuplicate ==
    /\ Ready /\ duplicate_cache # <<>>
    /\ LET id == Head(duplicate_cache)
       IN /\ Commit([Cur("expire_duplicate", "", "") EXCEPT
                        !.duplicate_cache = Tail(@),
                        !.fast_message_id_cache = [f \in {g \in DOMAIN @ : @[g] # id} |-> @[f]]])
          /\ seen' = seen \ {id}
          /\ published' = {r \in published : r.id # id}
    /\ UNCHANGED accepted

\* published_message_ids_cache_time has passed for the oldest published id
ExpirePublished ==
    /\ Ready /\ published_message_ids # <<>>
    /\ Commit([Cur("expire_published", "", "") EXCEPT !.published_message_ids = Tail(@)])
    /\ Quiet

\* ------------------------------------------------------------------------
\* Specification of the mesh: the router as waku-relay configures it
\* (anonymous messages, content-addressed message ids), two peers that
\* announce and withdraw their subscription, one topic
\* ------------------------------------------------------------------------
WakuConfigs ==
    {Config("Anonymous", "Anonymous", "deterministic", FALSE, FALSE, FALSE, FALSE, FALSE)}
MeshPeers == {"p1", "p2"}

Init == InitWith(WakuConfigs)

Next ==
    \/ \E t \in Topics : Subscribe(t)
    \/ \E t \in Topics : Unsubscribe(t)
    \/ \E t \in Topics : Publish(t, "d1")
    \/ \E p \in MeshPeers, c \in 1..MaxConns : ConnectionEstablished(p, c, FALSE)
    \/ \E p \in MeshPeers, c \in 1..MaxConns : ConnectionClosed(p, c)
    \/ \E p \in MeshPeers : PeerKindEvent(p, "Gossipsubv1_1")
    \/ \E p \in MeshPeers, rpc \in SubRpcs : ReceiveRpc(p, rpc)
    \/ Heartbeat
    \/ Poll

Spec == Init /\ [][Next]_vars

\* ------------------------------------------------------------------------
\* Specification of forwarding after application validation: three outbound
\* peers, messages held until report_message_validation_result
\* ------------------------------------------------------------------------
ForwardConfigs ==
    {Config("Anonymous", "Anonymous", "deterministic", TRUE, FALSE, FALSE, FALSE, FALSE)}
SubscribeRpcs == {Rpc(<<Subscription("Subscribe", t)>>, <<>>, None) : t \in Topics}

InitForward == InitWith(ForwardConfigs)

NextForward ==
    \/ \E t \in Topics : Subscribe(t)
    \/ \E p \in Peers : ConnectionEstablished(p, 1, TRUE)
    \/ \E p \in Peers : PeerKindEvent(p, "Gossipsubv1_1")
    \/ \E p \in Peers, rpc \in SubscribeRpcs \cup GraftRpcs \cup MsgRpcs({MsgAnon("d1")}) :
         ReceiveRpc(p, rpc)
    \/ \E p \in Peers : ReportValidationResult(deterministic_message_id_fn(MsgAnon("d1")), p, "Accept")
    \/ Poll

SpecForward == InitForward /\ [][NextForward]_vars

\* ------------------------------------------------------------------------
\* Specification of the message path: publish, receipt, validation and the
\* expiry of the caches, under several signers and message id functions
\* ------------------------------------------------------------------------
MsgConfigs ==
    {Config("Signed", "Strict", "default", FALSE, FALSE, FALSE, FALSE, FALSE),
     Config("Signed", "Permissive", "deterministic", FALSE, TRUE, FALSE, FALSE, FALSE),
     Config("Anonymous", "Permissive", "deterministic", TRUE, FALSE, FALSE, FALSE, FALSE)}
MsgPeers == {"p1", "p2"}
\* an anonymous message, one signed by ourselves, and one signed by
\* ourselves whose key field is the key of another peer
MsgInputs ==
    {MsgAnon("d1"), MsgFrom(OwnId, 1, "d1", OwnId),
     RawMessage(Some(OwnId), "d1", Some(1), "t1", Some(OwnId), Some("p1"))}
MsgIds == {message_id(cfg, inbound_transform(m)) : m \in MsgInputs}

InitMsg == InitWith(MsgConfigs)

NextMsg ==
    \/ \E t \in Topics : Subscribe(t)
    \/ \E p \in MsgPeers : ConnectionEstablished(p, 1, FALSE)
    \/ \E p \in MsgPeers : PeerKindEvent(p, "Gossipsubv1_1")
    \/ \E p \in MsgPeers, rpc \in SubscribeRpcs \cup MsgRpcs(MsgInputs) : ReceiveRpc(p, rpc)
    \/ \E t \in Topics : Publish(t, "d1")
    \/ \E id \in MsgIds, p \in MsgPeers : ReportValidationResult(id, p, "Accept")
    \/ ExpireDuplicate
    \/ ExpirePublished
    \/ Poll

SpecMsg == InitMsg /\ [][NextMsg]_vars

\* ------------------------------------------------------------------------
\* Specification of graylisting: the scoring service is active and the
\* scores of the peers move
\* ------------------------------------------------------------------------
ScoreConfigs ==
    {Config("Anonymous", "Anonymous", "deterministic", FALSE, FALSE, FALSE, TRUE, FALSE)}

InitScore == InitWith(WakuConfigs \cup ScoreConfigs)

NextScore ==
    \/ \E t \in Topics : Subscribe(t)
    \/ \E p \in MeshPeers : ConnectionEstablished(p, 1, FALSE)
    \/ \E p \in MeshPeers : PeerKindEvent(p, "Gossipsubv1_1")
    \/ \E p \in MeshPeers, v \in ScoreVals : RefreshScores(p, v)
    \/ \E valid \in BOOLEAN : WithPeerScore(valid)
    \/ \E p \in MeshPeers, rpc \in SubRpcs \cup GraftRpcs \cup MsgRpcs({MsgAnon("d1")}) :
         ReceiveRpc(p, rpc)
    \/ Poll

SpecScore == InitScore /\ [][NextScore]_vars

\* ------------------------------------------------------------------------
\* Specification of publishing: every signer with both message id functions
\* ------------------------------------------------------------------------
PublishConfigs ==
    {Config(c[1], c[2], idfn, FALSE, FALSE, FALSE, FALSE, FALSE)
       : c \in {<<"Signed", "Strict">>, <<"Author", "None">>,
                <<"RandomAuthor", "None">>, <<"Anonymous", "Anonymous">>},
         idfn \in IdFns}

InitPublish == InitWith(PublishConfigs)

NextPublish ==
    \/ \E p \in MsgPeers : ConnectionEstablished(p, 1, FALSE)
    \/ \E p \in MsgPeers : PeerKindEvent(p, "Gossipsubv1_1")
    \/ \E p \in MsgPeers, rpc \in SubscribeRpcs : ReceiveRpc(p, rpc)
    \/ \E t \in Topics, d \in Payloads : Publish(t, d)
    \/ ExpireDuplicate
    \/ Poll

SpecPublish == InitPublish /\ [][NextPublish]_vars



\* ------------------------------------------------------------------------
\* Specification of GRAFT during backoff: the peers send SUBSCRIBE and GRAFT
\* only, so that every backoff is one the router set when it sent a PRUNE
\* ------------------------------------------------------------------------
InitGraft == InitWith(WakuConfigs)

NextGraft ==
    \/ \E t \in Topics : Subscribe(t)
    \/ \E t \in Topics : Unsubscribe(t)
    \/ \E p \in MeshPeers : ConnectionEstablished(p, 1, FALSE)
    \/ \E p \in MeshPeers : PeerKindEvent(p, "Gossipsubv1_1")
    \/ \E p \in MeshPeers : AddExplicitPeer(p)
    \/ \E p \in MeshPeers, rpc \in SubscribeRpcs \cup GraftRpcs : ReceiveRpc(p, rpc)
    \/ Heartbeat
    \/ Poll

SpecGraft == InitGraft /\ [][NextGraft]_vars

\* ------------------------------------------------------------------------
\* Specification of the fragmentation: RPCs of up to MaxFragPublish messages,
\* MaxFragSubs subscriptions and control messages of up to MaxFragIds
\* message ids are sent to a peer
\* ------------------------------------------------------------------------
Repeat(x, n) == [i \in 1..n |-> x]

FragPublish ==
    {Repeat(MsgAnon("d1"), n) : n \in 0..MaxFragPublish}
    \cup {<<MsgAnon("big")>>, <<MsgAnon("d1"), MsgAnon("big")>>,
          <<MsgFrom("p1", 1, "d1", "p1")>>}
FragSubs == {Repeat(Subscription("Subscribe", "t1"), n) : n \in 0..MaxFragSubs}
FragControls ==
    {None,
     Some(ControlFromIter(<<Graft("t1")>>)),
     Some(ControlFromIter(<<IHave("t1", Repeat("m1", MaxFragIds))>>)),
     Some(ControlFromIter(<<IHave("t1", Repeat("m1", 3)), IHave("t1", Repeat("m2", 3)),
                            IWant(<<"m1">>), Graft("t1"),
                            Prune("t1", <<>>, Some(1))>>))}
FragRpcs == {Rpc(subs, msgs, c) : subs \in FragSubs, msgs \in FragPublish, c \in FragControls}

InitFragment == InitWith(WakuConfigs)

NextFragment ==
    \/ \E rpc \in FragRpcs : SendRpc("p1", rpc)
    \/ Poll

SpecFragment == InitFragment /\ [][NextFragment]_vars

\* ------------------------------------------------------------------------
\* Specification of the construction: routers of every authenticity and
\* validation mode are constructed and used
\* ------------------------------------------------------------------------
InitNew == InitWith(WakuConfigs)

NextNew ==
    \/ \E signer \in Signers, mode \in ValidationModes : New(signer, mode)
    \/ ConnectionEstablished("p1", 1, FALSE)
    \/ \E t \in Topics : Subscribe(t)
    \/ \E t \in Topics : Unsubscribe(t)
    \/ \E t \in Topics, d \in Payloads : Publish(t, d)
    \/ Poll

SpecNew == InitNew /\ [][NextNew]_vars

\* ------------------------------------------------------------------------
\* Specification of the validation reports: the application validates the
\* messages, reports Accept, Reject or Ignore for the ids it has seen, and
\* the heartbeat shifts the memcache
\* ------------------------------------------------------------------------
Acceptances == {"Accept", "Reject", "Ignore"}
ReportIds == {deterministic_message_id_fn(MsgAnon("d1"))}

InitReport == InitWith(ForwardConfigs)

NextReport ==
    \/ \E t \in Topics : Subscribe(t)
    \/ \E p \in MsgPeers : ConnectionEstablished(p, 1, FALSE)
    \/ \E p \in MsgPeers : PeerKindEvent(p, "Gossipsubv1_1")
    \/ \E p \in MsgPeers, rpc \in SubscribeRpcs \cup MsgRpcs({MsgAnon("d1")}) :
         ReceiveRpc(p, rpc)
    \/ \E id \in ReportIds, a \in Acceptances : ReportValidationResult(id, "p1", a)
    \/ Heartbeat
    \/ Poll

SpecReport == InitReport /\ [][NextReport]_vars

\* ------------------------------------------------------------------------
\* Specification of the mesh maintenance: scoring enabled, a mesh of two
\* peers (mesh_n = mesh_n_high = 2, mesh_n_low = 1, mesh_outbound_min = 1),
\* three peers of which p3 is the one the router dialed and the one that
\* prunes the router
\* ------------------------------------------------------------------------
MeshConfigs ==
    {MeshConfig(Config("Anonymous", "Anonymous", "deterministic", FALSE, FALSE, FALSE, TRUE, FALSE),
                2, 1, 2, 1, r) : r \in {1, 2}}
DialedPeers == {"p3"}
MeshScoreVals == {0 - 1, 1}

InitMesh == InitWith(MeshConfigs)

NextMesh ==
    \/ \E t \in Topics : Subscribe(t)
    \/ \E p \in Peers : ConnectionEstablished(p, 1, p \in DialedPeers)
    \/ \E p \in Peers : PeerKindEvent(p, "Gossipsubv1_1")
    \/ \E p \in Peers \ DialedPeers, v \in MeshScoreVals : RefreshScores(p, v)
    \/ \E p \in Peers, rpc \in SubscribeRpcs : ReceiveRpc(p, rpc)
    \/ \E p \in DialedPeers, rpc \in PruneRpcs({<<>>}, {None}) : ReceiveRpc(p, rpc)
    \/ Heartbeat
    \/ Poll

SpecMesh == InitMesh /\ [][NextMesh]_vars

\* ------------------------------------------------------------------------
\* Claims
\* ------------------------------------------------------------------------
\* the events the step has appended to the queue
NewEvents == IF Len(events') > Len(events)
             THEN SubSeq(events', Len(events) + 1, Len(events'))
             ELSE <<>>
NewMessageEvents == SelectSeq(NewEvents, LAMBDA e: e.type = "Message")
PublishedIds == {r.id : r \in published}
MessageEventsQueued == SelectSeq(events, LAMBDA e: e.type = "Message")

\* C1: after any sequence of router events, every peer of mesh[t] is also in
\* topic_peers[t], for every topic t.
C1_MeshWithinTopicPeers ==
    \A t \in DOMAIN mesh : mesh[t] \subseteq GetOr(topic_peers, t, {})

\* C2: every peer of a mesh has a live connection in the connection
\* registry, so the lookup of peer_added_to_mesh / peer_removed_from_mesh
\* never fails.
C2_MeshPeersConnected ==
    /\ \A t \in DOMAIN mesh : \A p \in mesh[t] : connections(Cur("", "", ""), p) # <<>>
    /\ ~panicked

\* C3: every control action handed to send_control_rpc_message by the last
\* handler is in the control envelope of an RPC queued for that peer's
\* connection handler.
C3_ControlActionsSent ==
    \A i \in 1..Len(last.controls) :
      \A k \in 1..Len(last.controls[i].actions) :
        \E j \in 1..Len(events) :
          /\ events[j].type = "HandlerMessage"
          /\ events[j].peer = last.controls[i].peer
          /\ events[j].rpc.control # None
          /\ LET c == events[j].rpc.control[1]
                 a == last.controls[i].actions[k]
             IN \/ SeqContains(c.graft, a) \/ SeqContains(c.prune, a)
                \/ SeqContains(c.ihave, a) \/ SeqContains(c.iwant, a)

\* C4: while its entry has not expired, a message id is in the duplicate
\* cache if and only if the message was admitted by the receive path or
\* published successfully.
C4_DuplicateCacheIffSeen == SeqToSet(duplicate_cache) = seen

C4_Witness ==
    /\ last.op = "publish" /\ last.result = "Ok"
    /\ cfg.signer = "Signed"
    /\ SeqContains(duplicate_cache, last.id)
    /\ Has(mcache.msgs, last.id) /\ mcache.msgs[last.id].msg.source = None

\* C5: the peers report_message_validation_result(Accept) forwards the
\* message to never include propagation_source nor a peer recorded as an
\* originator of the message while validation was pending.
C5_ForwardExcludesOriginators ==
    (last.op = "report" /\ last.flag) =>
        SeqToSet(last.sent) \cap ({last.peer} \cup last.orig) = {}

C5_Witness ==
    /\ last.op = "report" /\ last.flag
    /\ last.sent # <<>>
    /\ last.orig # {}
    /\ \A t \in DOMAIN mesh : ({last.peer} \cup last.orig) \subseteq mesh[t]

\* C6 as claimed: a Message event carries a message that passed validation
\* and, when validate_messages is set, has already been accepted through
\* report_message_validation_result.
C6_MessageEventsAccepted ==
    [][\A i \in 1..Len(NewMessageEvents) :
         /\ \E k \in 1..Len(last'.outcomes) :
              /\ last'.outcomes[k].id = NewMessageEvents[i].message_id
              /\ validate_message_proto(last'.outcomes[k].m)
              /\ validate(cfg.validation_mode, last'.outcomes[k].m)
         /\ cfg.validate_messages => NewMessageEvents[i].message_id \in accepted]_vars

\* C6 as the router does it: a Message event carries a message that passed
\* the protocol validation and the configured validator; when
\* validate_messages is set the event is raised before the application has
\* answered, and the message is not forwarded by the receive path.
C6_MessageEventsValidated ==
    [][\A i \in 1..Len(NewMessageEvents) :
         /\ last'.op = "rpc"
         /\ \E k \in 1..Len(last'.outcomes) :
              /\ last'.outcomes[k].id = NewMessageEvents[i].message_id
              /\ last'.outcomes[k].res = "delivered"
              /\ inbound_transform(last'.outcomes[k].m) = NewMessageEvents[i].message
              /\ validate_message_proto(last'.outcomes[k].m)
              /\ validate(cfg.validation_mode, last'.outcomes[k].m)
         /\ cfg.validate_messages => last'.sent = <<>>]_vars

C6_Witness ==
    /\ cfg.validate_messages
    /\ last.op = "rpc"
    /\ MessageEventsQueued # <<>>
    /\ \A i \in 1..Len(MessageEventsQueued) : MessageEventsQueued[i].message_id \notin accepted
    /\ \E t \in DOMAIN mesh : mesh[t] # {}

\* C7 as claimed: for every signer and message id function, a second publish
\* of the same (topic, data) returns Duplicate.
C7_SecondPublishDuplicate ==
    (last.op = "publish" /\ last.flag) => last.result = "Duplicate"

\* C7 for message ids computed from the content alone (the deterministic
\* id function, which hashes the data or the topic and the Waku message in
\* it, or the default one when the signer attaches neither source nor
\* sequence number): a second publish of the same (topic, data), made while
\* the first id is in the duplicate cache, returns Duplicate.
C7_SecondPublishDuplicateContentId ==
    (/\ last.op = "publish" /\ last.flag
     /\ (cfg.idfn = "deterministic" \/ cfg.signer = "Anonymous"))
        => last.result = "Duplicate"

C7_Witness ==
    /\ last.op = "publish" /\ last.flag
    /\ cfg.idfn = "deterministic" /\ cfg.signer = "Signed"
    /\ last.result = "Duplicate"
    /\ seqno = 2

\* C8: once publish has returned a message id, a later receipt of a message
\* with that id, while the id is in the duplicate cache, raises no Message
\* event, forwards nothing and puts nothing into the memcache.
C8_PublishedIdNotReadmitted ==
    [][(/\ last'.op = "rpc"
        /\ \E k \in 1..Len(last'.outcomes) : last'.outcomes[k].id \in PublishedIds)
       => /\ NewMessageEvents = <<>>
          /\ last'.sent = <<>>
          /\ DOMAIN mcache'.msgs = DOMAIN mcache.msgs
          /\ mcache'.history = mcache.history]_vars

C8_Witness ==
    /\ last.op = "rpc"
    /\ \E k \in 1..Len(last.outcomes) :
         /\ last.outcomes[k].id \in PublishedIds
         /\ last.outcomes[k].res = "duplicate"
    /\ \E t \in DOMAIN mesh : mesh[t] # {} /\ last.peer \notin mesh[t]

\* what C9 calls dropped: the step leaves the duplicate cache, the memcache
\* and the event queue alone, sends nothing, and reports the sender to the
\* scoring service
SelfOriginDropped ==
    /\ duplicate_cache' = duplicate_cache
    /\ mcache' = mcache
    /\ events' = events
    /\ last'.sent = <<>>
    /\ last'.peer \in last'.rejected

\* C9 as claimed: a received message whose source is our own peer id and
\* which we did not publish is always dropped, and its sender penalized.
C9_SelfOriginAlwaysDropped ==
    [][(/\ last'.op = "rpc"
        /\ \E k \in 1..Len(last'.outcomes) :
             /\ last'.outcomes[k].m.source = Some(OwnId)
             /\ last'.outcomes[k].id \notin PublishedIds)
       => SelfOriginDropped]_vars

\* C9 as the router does it: with allow_self_origin off and a signer that
\* names us as the author, a received message whose source is our own peer
\* id is dropped and its sender reported to scoring, published or not.
C9_SelfOriginDroppedForAuthor ==
    [][(/\ last'.op = "rpc"
        /\ ~cfg.allow_self_origin /\ author(cfg) # None
        /\ \E k \in 1..Len(last'.outcomes) : last'.outcomes[k].m.source = author(cfg))
       => SelfOriginDropped]_vars

C9_Witness ==
    /\ last.op = "rpc"
    /\ ~cfg.allow_self_origin /\ author(cfg) # None
    /\ \E k \in 1..Len(last.outcomes) :
         /\ last.outcomes[k].m.source = Some(OwnId)
         /\ last.outcomes[k].res = "invalid"
    /\ last.peer \in last.rejected
    /\ \E t \in DOMAIN mesh : mesh[t] # {} /\ last.peer \notin mesh[t]

\* C10: an RPC from a peer whose score is below the graylist threshold is
\* dropped as a whole: the step changes nothing of the router's state.
C10_GraylistedRpcDropped ==
    [][(/\ last'.op = "rpc"
        /\ score_below_threshold(Cur("", "", ""), last'.peer, graylist_threshold))
       => UNCHANGED <<topic_peers, peer_topics, mesh, fanout, duplicate_cache,
                      mcache, events, control_pool, backoffs>>]_vars

\* the mesh peers the heartbeat keeps after dropping the negative scores, the
\* peers it leaves in the mesh and the outbound peers it grafts
HbScore(p) == hb_score(Cur("", "", ""), p)
HbPeers(t) == {p \in mesh[t] : HbScore(p) >= 0}
HbStep == last'.op = "heartbeat" /\ ~panicked'
HbOutboundGrafted(t) == {p \in mesh'[t] \ mesh[t] : p \in outbound_peers}

\* the state after a heartbeat that directly followed a heartbeat, the
\* peers still eligible for the mesh and the outbound peers it grafted
HbAgain == last.op = "heartbeat" /\ last.flag /\ ~panicked
HbEligible(t) ==
    {p \in GetOr(topic_peers, t, {}) :
        /\ kind_is_gossipsub(Cur("", "", ""), p)
        /\ p \notin mesh[t] /\ p \notin explicit_peers
        /\ ~is_backoff_with_slack(Cur("", "", ""), t, p)
        /\ HbScore(p) >= 0}
HbGrafted ==
    {last.controls[i].peer :
        i \in {j \in 1..Len(last.controls) :
                 \E k \in 1..Len(last.controls[j].actions) :
                   last.controls[j].actions[k].type = "Graft"}}

\* C11 (as stated): a heartbeat that directly follows a heartbeat ends with
\* mesh_n_low <= |mesh[t]| <= mesh_n_high for every subscribed topic, the
\* lower bound provided eligible peers are left
C11_MeshWithinBounds ==
    HbAgain =>
      \A t \in DOMAIN mesh :
        /\ (Cardinality(mesh[t]) >= cfg.mesh_n_low \/ HbEligible(t) = {})
        /\ Cardinality(mesh[t]) <= cfg.mesh_n_high

\* C11 (amended): the same, but the upper bound holds for the mesh without
\* the outbound peers this heartbeat grafted
C11_MeshWithinBoundsButOutbound ==
    HbAgain =>
      \A t \in DOMAIN mesh :
        /\ (Cardinality(mesh[t]) >= cfg.mesh_n_low \/ HbEligible(t) = {})
        /\ Cardinality(mesh[t] \ (HbGrafted \cap outbound_peers)) <= cfg.mesh_n_high

\* the second of two heartbeats in a row grafted a peer, whose backoff had
\* run out, and left the mesh within the bounds
C11_Witness ==
    /\ HbAgain
    /\ \E i \in 1..Len(last.controls) :
         \E k \in 1..Len(last.controls[i].actions) :
           last.controls[i].actions[k].type = "Graft"
    /\ \A t \in Topics : /\ Has(mesh, t)
                          /\ Cardinality(mesh[t]) >= cfg.mesh_n_low
                          /\ Cardinality(mesh[t]) <= cfg.mesh_n_high

\* C12 (as stated): a mesh above mesh_n_high when the heartbeat starts holds
\* exactly mesh_n peers when it ends
C12_TrimToMeshN ==
    [][HbStep =>
         \A t \in DOMAIN mesh :
           Cardinality(mesh[t]) > cfg.mesh_n_high => Cardinality(mesh'[t]) = cfg.mesh_n]_vars

\* C12 (amended): when the mesh is still above mesh_n_high after the peers
\* with a negative score are dropped, exactly mesh_n of its peers remain
C12_TrimScoredToMeshN ==
    [][HbStep =>
         \A t \in DOMAIN mesh :
           Cardinality(HbPeers(t)) > cfg.mesh_n_high =>
             /\ Cardinality(mesh'[t] \cap mesh[t]) = cfg.mesh_n
             /\ mesh'[t] \ mesh[t] = HbOutboundGrafted(t)]_vars

\* a heartbeat pruned a peer without a negative score and left mesh_n peers
C12_Witness ==
    /\ last.op = "heartbeat" /\ ~panicked
    /\ \E i \in 1..Len(last.controls) :
         /\ score[last.controls[i].peer] >= 0
         /\ \E k \in 1..Len(last.controls[i].actions) :
              last.controls[i].actions[k].type = "Prune"
    /\ \A t \in Topics : Has(mesh, t) /\ Cardinality(mesh[t]) = cfg.mesh_n
                          /\ mesh[t] \cap outbound_peers # {}

\* the sets of `n` best peers of `peers`
TopSets(peers, n) ==
    {T \in SUBSET peers :
        /\ Cardinality(T) = Min2(n, Cardinality(peers))
        /\ \A a \in T, b \in peers \ T : HbScore(a) >= HbScore(b)}

\* C13 (as stated): trimming a mesh above mesh_n_high removes none of the
\* retain_scores best peers
C13_TrimRetainsBest ==
    [][HbStep =>
         \A t \in DOMAIN mesh :
           Cardinality(HbPeers(t)) > cfg.mesh_n_high =>
             \E T \in TopSets(HbPeers(t), cfg.retain_scores) : T \subseteq mesh'[t]]_vars

\* C13 (amended): the same when retain_scores + mesh_outbound_min <= mesh_n
C13_TrimRetainsBestWithinMeshN ==
    [][(HbStep /\ cfg.retain_scores + cfg.mesh_outbound_min <= cfg.mesh_n) =>
         \A t \in DOMAIN mesh :
           Cardinality(HbPeers(t)) > cfg.mesh_n_high =>
             \E T \in TopSets(HbPeers(t), cfg.retain_scores) : T \subseteq mesh'[t]]_vars

\* the trim skipped the outbound peer, which has the lowest score, and kept
\* the best peer
C13_Witness ==
    /\ last.op = "heartbeat" /\ ~panicked
    /\ cfg.retain_scores + cfg.mesh_outbound_min <= cfg.mesh_n
    /\ \E i \in 1..Len(last.controls) :
         /\ score[last.controls[i].peer] >= 0
         /\ \E k \in 1..Len(last.controls[i].actions) :
              last.controls[i].actions[k].type = "Prune"
    /\ \A t \in Topics :
         /\ Has(mesh, t) /\ Cardinality(mesh[t]) = cfg.mesh_n
         /\ \E p \in mesh[t] \cap outbound_peers : score[p] = 0
         /\ \E p \in mesh[t] \ outbound_peers : score[p] = 1

\* a GRAFT for topic t arrives from a peer the router is backing off
GraftInBackoff(t) ==
    /\ last'.op = "rpc" /\ ~panicked'
    /\ t \in SeqToSet(last'.grafts)
    /\ get_backoff_time(Cur("", "", ""), t, last'.peer) > 0
PruneAnswered(t) ==
    \E i \in 1..Len(last'.controls) :
      /\ last'.controls[i].peer = last'.peer
      /\ \E k \in 1..Len(last'.controls[i].actions) :
           /\ last'.controls[i].actions[k].type = "Prune"
           /\ last'.controls[i].actions[k].topic = t
NotAddedToMesh(t) == last'.peer \in GetOr(mesh', t, {}) => last'.peer \in GetOr(mesh, t, {})

SendRpcOk == last.op = "send_rpc" /\ last.result = "Ok"
SendRpcInput == last.rpc[1]

\* the control sub-messages of an RPC, by type
ControlItems(rpc, type) ==
    IF rpc.control = None THEN <<>>
    ELSE CASE type = "IHave" -> rpc.control[1].ihave
           [] type = "IWant" -> rpc.control[1].iwant
           [] type = "Graft" -> rpc.control[1].graft
           [] OTHER -> rpc.control[1].prune
AllControlItems(rpc) ==
    ControlItems(rpc, "IHave") \o ControlItems(rpc, "IWant")
    \o ControlItems(rpc, "Graft") \o ControlItems(rpc, "Prune")

\* C15: every RPC that a successful fragmentation emits has an encoded
\* length of at most max_transmit_size
C15_FragmentsWithinMaxTransmitSize ==
    SendRpcOk =>
      \A i \in 1..Len(last.fragments) : encoded_len(last.fragments[i]) <= max_transmit_size

\* C16: the subscriptions, the messages and the control sub-messages of each
\* type of the fragments that fragmentation emits, taken in order, are those
\* of the original RPC: each appears whole in exactly one fragment
C16_FragmentsPartitionContents ==
    SendRpcOk =>
      /\ FoldSeq(LAMBDA acc, f: acc \o f.subscriptions, <<>>, last.fragments)
           = SendRpcInput.subscriptions
      /\ FoldSeq(LAMBDA acc, f: acc \o f.publish, <<>>, last.fragments)
           = SendRpcInput.publish
      /\ \A type \in {"IHave", "IWant", "Graft", "Prune"} :
           FoldSeq(LAMBDA acc, f: acc \o ControlItems(f, type), <<>>, last.fragments)
             = ControlItems(SendRpcInput, type)
      /\ events # <<>>
      /\ \A i \in 1..Len(last.fragments) :
           events[Len(events) - Len(last.fragments) + i] = HandlerMessage(last.peer, last.fragments[i])

\* an RPC with messages, subscriptions and control sub-messages was split,
\* its control sub-messages over more than one fragment
C16_Witness ==
    /\ SendRpcOk /\ Len(last.fragments) > 2
    /\ SendRpcInput.publish # <<>> /\ SendRpcInput.subscriptions # <<>>
    /\ \E i, j \in 1..Len(last.fragments) :
         i # j /\ AllControlItems(last.fragments[i]) # <<>>
               /\ AllControlItems(last.fragments[j]) # <<>>

\* C17: an RPC with a message or a control sub-message that alone exceeds
\* max_transmit_size less the two bytes of framing fails with
\* MessageTooLarge and nothing of it is sent
C17_OversizedItemFails ==
    /\ last.op = "send_rpc"
    /\ \/ \E i \in 1..Len(SendRpcInput.publish) :
            MessageLen(SendRpcInput.publish[i]) + 2 > max_transmit_size
       \/ \E i \in 1..Len(AllControlItems(SendRpcInput)) :
            ControlItemLen(AllControlItems(SendRpcInput)[i]) + 2 > max_transmit_size
    => last.result = "MessageTooLarge" /\ last.fragments = <<>> /\ events = <<>>

\* ------------------------------------------------------------------------
\* Construction
\* ------------------------------------------------------------------------
NewCalled == last.op = "new" /\ last.id # <<>>
NewSigner == last.id[1]
NewMode == last.id[2]

\* C18: the construction accepts the pair of signer and validator as the
\* table says: None and Permissive accept every signer, Anonymous only the
\* Anonymous signer, Strict the Anonymous signer and the KeyedSigner
C18_ConfigTable ==
    NewCalled =>
      (last.result = "Ok" <=>
         CASE NewMode \in {"None", "Permissive"} -> TRUE
           [] NewMode = "Anonymous" -> NewSigner = "Anonymous"
           [] OTHER -> NewSigner \in {"Anonymous", "Signed"})

\* C18 as the code has it: Strict accepts the KeyedSigner only; an accepted
\* pair is the configuration of the router, a refused one leaves none
C18_ConfigTableStrictSigned ==
    NewCalled =>
      /\ last.result = "Ok" <=>
            CASE NewMode \in {"None", "Permissive"} -> TRUE
              [] NewMode = "Anonymous" -> NewSigner = "Anonymous"
              [] OTHER -> NewSigner = "Signed"
      /\ last.result = "Ok" => cfg.signer = NewSigner /\ cfg.validation_mode = NewMode
      /\ last.result # "Ok" => last.result = "Err"

\* the construction with the Anonymous signer and the Strict validator was
\* refused
C18_Witness ==
    NewCalled /\ NewSigner = "Anonymous" /\ NewMode = "Strict" /\ last.result = "Err"

\* ------------------------------------------------------------------------
\* Signer outputs
\* ------------------------------------------------------------------------
\* the copies of the message of the last publish: the one in the memcache
\* and those queued for the connection handlers
PublishedCopies ==
    {mcache.msgs[last.id].msg}
    \cup {events[i].rpc.publish[1] :
            i \in {j \in 1..Len(events) : events[j].type = "HandlerMessage"
                                           /\ events[j].rpc.publish # <<>>}}
PublishedUnsigned ==
    /\ last.op = "publish" /\ last.result = "Ok"
    /\ cfg.signer \in {"RandomAuthor", "Author"}
FromOnly(m) ==
    /\ m.source = (IF cfg.signer = "Author" THEN Some(OwnId) ELSE m.source)
    /\ m.source # None /\ m.source[1] \in RandomIds \cup {OwnId}
    /\ m.signature = None /\ m.key = None

\* C19: a message published under RandomAuthor or AuthorOnly carries a
\* `from` field (a random peer id, respectively our own id) and no sequence
\* number, no signature and no key
C19_AuthorMessagesWithoutSeqno ==
    PublishedUnsigned =>
      \A m \in PublishedCopies : FromOnly(m) /\ m.sequence_number = None

\* C19 as the code has it: the message carries `from` and a random sequence
\* number, no signature and no key
C19_AuthorMessagesWithRandomSeqno ==
    PublishedUnsigned =>
      \A m \in PublishedCopies :
        FromOnly(m) /\ m.sequence_number # None /\ m.sequence_number[1] \in 1..MaxSeqNo

\* a message was published under RandomAuthor and sent to a peer
C19_Witness ==
    /\ PublishedUnsigned /\ cfg.signer = "RandomAuthor"
    /\ \E i \in 1..Len(events) :
         /\ events[i].type = "HandlerMessage" /\ events[i].rpc.publish # <<>>
         /\ events[i].rpc.publish[1].source = Some("r1")

\* ------------------------------------------------------------------------
\* Validation reports
\* ------------------------------------------------------------------------
\* C20: report_message_validation_result returns true if and only if the
\* message id is in the memcache when it is called, whether the report is
\* Accept, Reject or Ignore
C20_ReportTrueIffInMemcache ==
    [][last'.op = "report" =>
         /\ last'.result \in {"Ok(true)", "Ok(false)"}
         /\ last'.result = "Ok(true)" <=> Has(mcache.msgs, last'.id)]_vars

\* an Ignore for a message in the memcache returned true and removed it
C20_Witness ==
    /\ last.op = "report" /\ last.acceptance = "Ignore" /\ last.result = "Ok(true)"
    /\ ~Has(mcache.msgs, last.id)
    /\ SeqContains(duplicate_cache, last.id)

\* ------------------------------------------------------------------------
\* Subscriptions
\* ------------------------------------------------------------------------
\* C21: subscribe(t) returns true exactly when the router was not subscribed
\* to t before the call and false otherwise; unsubscribe(t) returns true
\* exactly when it was subscribed to t before the call and false otherwise
C21_SubscribeResult ==
    [][/\ last'.op = "subscribe" =>
            /\ last'.result \in {"Ok(true)", "Ok(false)"}
            /\ last'.result = "Ok(true)" <=> ~Has(mesh, last'.topic)
       /\ last'.op = "unsubscribe" =>
            /\ last'.result \in {"Ok(true)", "Ok(false)"}
            /\ last'.result = "Ok(true)" <=> Has(mesh, last'.topic)]_vars

\* an unsubscribe of a topic the router is subscribed to returned true and
\* the peers were told
C21_Witness ==
    /\ last.op = "unsubscribe" /\ last.result = "Ok(true)" /\ ~Has(mesh, last.topic)
    /\ \E i \in 1..Len(events) :
         /\ events[i].type = "HandlerMessage"
         /\ events[i].rpc.subscriptions = <<Subscription("Unsubscribe", last.topic)>>

\* ------------------------------------------------------------------------
\* Specification of the announcements: the application subscribes,
\* unsubscribes and publishes without waiting for the swarm to poll, while
\* peers connect and subscribe
\* ------------------------------------------------------------------------
InitAnnounce == InitWith(WakuConfigs)

\* the application does not wait for the swarm to drain the queue
Backlog == ~panicked /\ Len(events) <= MaxBacklog

NextAnnounce ==
    \/ \E t \in Topics : Backlog /\ SubscribeCall(t)
    \/ \E t \in Topics : Backlog /\ UnsubscribeCall(t)
    \/ \E t \in Topics : Backlog /\ PublishCall(t, "d1")
    \/ \E p \in MsgPeers : ConnectionEstablished(p, 1, FALSE)
    \/ \E p \in MsgPeers : PeerKindEvent(p, "Gossipsubv1_1")
    \/ \E p \in MsgPeers, rpc \in SubscribeRpcs : ReceiveRpc(p, rpc)
    \/ Poll

SpecAnnounce == InitAnnounce /\ [][NextAnnounce]_vars

\* the step leaves the queued events in their order: it appends at the back
\* and takes at most the front event away
QueueFifo ==
    \E k \in {0, 1} :
        /\ k <= Len(events) /\ Len(events') >= Len(events) - k
        /\ SubSeq(events', 1, Len(events) - k) = SubSeq(events, k + 1, Len(events))

IsAnnouncement(e, p, action, t) ==
    /\ e.type = "HandlerMessage" /\ e.peer = p
    /\ e.rpc.subscriptions = <<Subscription(action, t)>>

IsPublishTo(e, p, t) ==
    /\ e.type = "HandlerMessage" /\ e.peer = p
    /\ \E i \in 1..Len(e.rpc.publish) : e.rpc.publish[i].topic = t

AnnouncedTo(p, action, t) ==
    \E i \in (Len(events) + 1)..Len(events') :
        /\ IsAnnouncement(events'[i], p, action, t)
        /\ \A j \in (i + 1)..Len(events') : ~IsPublishTo(events'[j], p, t)

\* C22: for every peer, the Subscribe or Unsubscribe announcement of a
\* subscribe or unsubscribe call is put at the back of the outgoing event
\* queue by that call, and the queue is first-in first-out (every step
\* appends at the back, poll hands out the front), so the announcement is
\* queued and delivered before any publish RPC on the topic that a later
\* publish call produces
C22_AnnouncementBeforeLaterPublish ==
    [][/\ QueueFifo
       /\ last'.op = "subscribe" /\ last'.result = "Ok(true)" =>
            \A p \in DOMAIN peer_topics : AnnouncedTo(p, "Subscribe", last'.topic)
       /\ last'.op = "unsubscribe" /\ last'.result = "Ok(true)" =>
            \A p \in DOMAIN peer_topics : AnnouncedTo(p, "Unsubscribe", last'.topic)]_vars

\* a publish call has queued an RPC on a topic for a peer behind the
\* announcement of the subscription to that topic for the same peer
C22_Witness ==
    /\ last.op = "publish"
    /\ \E i, j \in 1..Len(events) :
         /\ i < j
         /\ IsAnnouncement(events[i], events[j].peer, "Subscribe", last.topic)
         /\ IsPublishTo(events[j], events[i].peer, last.topic)

\* ------------------------------------------------------------------------
\* Specification of the memcache: a message is received, asked for with
\* IWANT, reported by the application, received again when the duplicate
\* cache has forgotten it, and aged by the heartbeat
\* ------------------------------------------------------------------------
CacheConfigs == WakuConfigs \cup ForwardConfigs
CachePeers == {"p1"}
CacheIds == {deterministic_message_id_fn(MsgAnon("d1"))}

HistoryEntries == FoldSeq(LAMBDA n, slot: n + Len(slot), 0, mcache.history)

InitCache == InitWith(CacheConfigs)

NextCache ==
    \/ \E p \in CachePeers : ConnectionEstablished(p, 1, FALSE)
    \/ \E p \in CachePeers : PeerKindEvent(p, "Gossipsubv1_1")
    \/ /\ HistoryEntries < MaxHistory
       /\ \E p \in CachePeers, rpc \in MsgRpcs({MsgAnon("d1")}) \cup IWantRpcs(CacheIds) :
            ReceiveRpc(p, rpc)
    \/ \E id \in CacheIds, p \in CachePeers, a \in {"Accept", "Ignore"} :
         ReportValidationResult(id, p, a)
    \/ ExpireDuplicate
    \/ Heartbeat
    \/ Poll

SpecCache == InitCache /\ [][NextCache]_vars

\* the history slots that hold an entry of the message id, 1 the newest
Slots(mc, id) ==
    {i \in 1..Len(mc.history) : \E k \in 1..Len(mc.history[i]) : mc.history[i][k].mid = id}
Retrievable(mc) == DOMAIN mc.msgs \cup DOMAIN mc.iwant_counts

\* C23: every message put into the memcache is gone from msgs and from the
\* iwant counters once history_length heartbeats have shifted the cache
\* after the put: a retrievable message has an entry in one of the
\* history_length slots, a put makes its entry in the newest slot, no step
\* but the heartbeat moves or removes an entry, and every tick of the
\* heartbeat moves every entry one slot on and leaves no message that it
\* moves out of the oldest slot retrievable
C23_CachedMessageExpires ==
    [][/\ Len(mcache'.history) = history_length
       /\ \A id \in Retrievable(mcache') : Slots(mcache', id) # {}
       /\ last'.op = "heartbeat" =>
            /\ \A id \in CacheIds :
                 /\ Slots(mcache', id)
                      = {i + last'.ticks :
                           i \in {j \in Slots(mcache, id) : j + last'.ticks <= history_length}}
                 /\ (\E i \in Slots(mcache, id) : i + last'.ticks > history_length)
                      => id \notin Retrievable(mcache')
            /\ Retrievable(mcache') \subseteq Retrievable(mcache)
       /\ last'.op # "heartbeat" =>
            \A id \in CacheIds :
                 /\ Slots(mcache, id) \subseteq Slots(mcache', id)
                 /\ Slots(mcache', id) \ Slots(mcache, id) \subseteq {1}
                 /\ id \in DOMAIN mcache'.msgs \ DOMAIN mcache.msgs => 1 \in Slots(mcache', id)]_vars

\* the heartbeat has aged a message that was retransmitted on IWANT to the
\* oldest slot: the message and its counter are in their last period
C23_Witness ==
    /\ last.op = "heartbeat"
    /\ \E id \in DOMAIN mcache.msgs \cap DOMAIN mcache.iwant_counts :
         Slots(mcache, id) = {history_length}

\* ------------------------------------------------------------------------
\* Disconnection
\* ------------------------------------------------------------------------
InSomeSet(m, p) == \E t \in DOMAIN m : p \in m[t]

\* C24: after the last connection to a peer is closed, the peer is absent
\* from every mesh set, every topic_peers set, every fanout set, from
\* peer_topics, from px_peers and from the connection registry
C24_ClosedPeerForgotten ==
    [][last'.op = "connection_closed" /\ ~panicked' =>
         /\ ~InSomeSet(mesh', last'.peer)
         /\ ~InSomeSet(topic_peers', last'.peer)
         /\ ~InSomeSet(fanout', last'.peer)
         /\ ~Has(peer_topics', last'.peer)
         /\ last'.peer \notin px_peers'
         /\ ~Has(connected_peers', last'.peer)]_vars

\* ------------------------------------------------------------------------
\* Specification of the protocol reports: the connection handlers of the
\* peers report the protocol kind they negotiated, also while events are
\* waiting for the swarm
\* ------------------------------------------------------------------------
ReportedKinds == {"NotSupported", "Floodsub", "Gossipsub", "Gossipsubv1_1"}

InitKind == InitWith(WakuConfigs)

NextKind ==
    \/ \E p \in MeshPeers : ConnectionEstablished(p, 1, FALSE)
    \/ \E p \in MeshPeers : ConnectionClosed(p, 1)
    \/ \E p \in MeshPeers, k \in ReportedKinds : Backlog /\ PeerKindReport(p, k)
    \/ Poll

SpecKind == InitKind /\ [][NextKind]_vars

NotSupportedEvent(p) == [type |-> "GossipsubNotSupported", peer |-> p]

\* C25 as stated: for every peer the router emits GossipsubNotSupported at
\* most once, however many times a handler reports the NotSupported kind; in
\* particular no two of these events for one peer are ever queued together
C25_NotSupportedAtMostOnce ==
    \A p \in MeshPeers :
        Cardinality({i \in 1..Len(events) : events[i] = NotSupportedEvent(p)}) <= 1

\* C25: the router emits one GossipsubNotSupported event for every
\* NotSupported report of a connection handler and none for any other
\* report; it keeps no record of the peers it has emitted the event for
C25_NotSupportedPerReport ==
    [][last'.op = "peer_kind" =>
         events' = IF last'.result = "NotSupported"
                   THEN Append(events, NotSupportedEvent(last'.peer))
                   ELSE events]_vars

\* a second NotSupported report for a peer has queued a second event
C25_Witness ==
    /\ last.op = "peer_kind" /\ last.result = "NotSupported"
    /\ Cardinality({i \in 1..Len(events) : events[i] = NotSupportedEvent(last.peer)}) = 2

\* ------------------------------------------------------------------------
\* Specification of peer exchange: the peers send PRUNE with lists of peer
\* records whose peer id is absent, malformed ("badid") or well-formed
\* ------------------------------------------------------------------------
PxLists == {<<>>, <<None>>, <<Some("badid")>>, <<Some("p2")>>, <<Some("badid"), Some("p2")>>}

InitPx == InitWith(WakuConfigs)

NextPx ==
    \/ \E t \in Topics : Subscribe(t)
    \/ \E p \in MeshPeers : ConnectionEstablished(p, 1, FALSE)
    \/ \E p \in MeshPeers : PeerKindEvent(p, "Gossipsubv1_1")
    \/ \E p \in MeshPeers, rpc \in SubscribeRpcs \cup GraftRpcs \cup PruneRpcs(PxLists, {None}) :
         ReceiveRpc(p, rpc)
    \/ Poll

SpecPx == InitPx /\ [][NextPx]_vars

\* C26: no content of an RPC received from a peer makes the router abort; a
\* PRUNE whose peer-exchange list has an entry with an absent or malformed
\* peer id is handled by discarding the entry, without panicking
C26_RpcNeverAborts ==
    [][last'.op = "rpc" => ~panicked']_vars

\* ------------------------------------------------------------------------
\* Specification of two connected nodes (tests/gossipsub/smoke.rs): both
\* subscribe, this node dials the other one, the other one publishes
\* ------------------------------------------------------------------------
InitPair == InitLocal(WakuConfigs) /\ remote = NewBehaviour(cfg)

NextPair ==
    \/ \E t \in Topics : Subscribe(t)
    \/ \E t \in Topics : RemoteSubscribe(t)
    \/ PairConnect
    \/ PeerKindEvent("p1", "Gossipsubv1_1")
    \/ RemotePeerKind("Gossipsubv1_1")
    \/ \E t \in Topics : RemotePublish(t, "d1")
    \/ DeliverToRemote
    \/ DeliverToLocal
    \/ LocalPoll
    \/ RemotePoll

SpecPair == InitPair /\ [][NextPair]_vars

\* the swarms keep polling the routers and the transport delivers what the
\* connection handlers are given
SwarmStep == DeliverToRemote \/ DeliverToLocal \/ LocalPoll \/ RemotePoll

SpecPairLive == SpecPair /\ WF_vars(SwarmStep)

RemotePublished(t, d) ==
    /\ remote.last.op = "publish" /\ remote.last.result = "Ok"
    /\ remote.last.topic = t
    /\ Has(remote.mcache.msgs, remote.last.id)
    /\ remote.mcache.msgs[remote.last.id].msg.data = d

MessageRaised(t, d) ==
    \E i \in 1..Len(events) :
        /\ events[i].type = "Message"
        /\ events[i].message.topic = t /\ events[i].message.data = d

\* C27: with two connected nodes subscribed to the same topic, a message
\* published by one node eventually raises a Message event with the same
\* topic and payload at the other node, and no second Message event for the
\* message is raised afterwards
C27_PublishedMessageRaisedOnce ==
    /\ RemotePublished("t1", "d1") ~> MessageRaised("t1", "d1")
    /\ [][\A i \in (Len(events) + 1)..Len(events') :
            events'[i].type = "Message" =>
              /\ events'[i].message_id \notin seen
              /\ \A j \in (Len(events) + 1)..Len(events') :
                   events'[j] = events'[i] => j = i]_vars

\* the Message event of the message the other node published is waiting for
\* the application of this node, both nodes being subscribed
C27_Witness ==
    /\ Has(mesh, "t1") /\ Has(remote.mesh, "t1")
    /\ last.op = "rpc" /\ MessageRaised("t1", "d1")
    /\ Has(remote.mcache.msgs, events[1].message_id)

\* ------------------------------------------------------------------------
\* Specification of the PRUNEs the router makes: peers of both gossipsub
\* versions, scoring enabled so that the heartbeat prunes a peer whose score
\* has become negative
\* ------------------------------------------------------------------------
PruneConfigs ==
    {Config("Anonymous", "Anonymous", "deterministic", FALSE, FALSE, FALSE, TRUE, FALSE)}
PruneKinds == {"Gossipsub", "Gossipsubv1_1"}

InitPrune == InitWith(PruneConfigs)

NextPrune ==
    \/ \E t \in Topics : Subscribe(t)
    \/ \E t \in Topics : Unsubscribe(t)
    \/ \E p \in MeshPeers : ConnectionEstablished(p, 1, FALSE)
    \/ \E p \in MeshPeers, k \in PruneKinds : PeerKindEvent(p, k)
    \/ \E v \in MeshScoreVals : RefreshScores("p1", v)
    \/ \E p \in MeshPeers, rpc \in SubscribeRpcs \cup GraftRpcs : ReceiveRpc(p, rpc)
    \/ Heartbeat
    \/ Poll

SpecPrune == InitPrune /\ [][NextPrune]_vars

\* the PRUNEs the step has made, with the peer each is for: on unsubscribe
\* they are added to the control pool, otherwise they are sent at once
PoolAdded(p) ==
    LET old == GetOr(control_pool, p, <<>>)
        new == GetOr(control_pool', p, <<>>)
    IN {new[i] : i \in (Len(old) + 1)..Len(new)}
PrunesMade ==
    IF last'.op = "unsubscribe"
    THEN {<<p, a>> \in MeshPeers \X UNION {PoolAdded(q) : q \in MeshPeers} :
            a \in PoolAdded(p) /\ a.type = "Prune"}
    ELSE UNION {{<<last'.controls[i].peer, last'.controls[i].actions[k]>> :
                    k \in 1..Len(last'.controls[i].actions)} : i \in 1..Len(last'.controls)}
BackoffFor(op) == IF op = "unsubscribe" THEN unsubscribe_backoff ELSE prune_backoff
\* the ticks of the heartbeat that the poll has served after the first
Aged == IF last'.op = "heartbeat" THEN last'.ticks - 1 ELSE 0
OldProtocol(p) == Has(connected_peers', p) /\ connected_peers'[p].kind = "Gossipsub"
MadeNow(x) ==
    /\ x[2].type = "Prune"
    /\ last'.op = "heartbeat" => ~SeqContains(GetOr(control_pool, x[1], <<>>), x[2])

\* C28 as stated: whenever the router makes a PRUNE(t) for a peer p (LEAVE,
\* heartbeat, refused GRAFT), whatever the protocol of p, a backoff entry for
\* (t, p) exists afterwards that lasts unsubscribe_backoff for LEAVE and
\* prune_backoff otherwise, less the ticks of the heartbeat served since
C28_PruneSetsBackoff ==
    [][~panicked' =>
         \A x \in PrunesMade :
           MadeNow(x) =>
             GetOr(backoffs', <<x[2].topic, x[1]>>, 0) >= BackoffFor(last'.op) - Aged]_vars

\* C28: a PRUNE(t) made for a peer p that is not a Gossipsub v1.0 peer
\* carries the backoff (unsubscribe_backoff for LEAVE, prune_backoff
\* otherwise) and leaves a backoff entry for (t, p) lasting at least as
\* long, less the ticks of the heartbeat served since; a PRUNE for a
\* Gossipsub v1.0 peer carries neither backoff nor peer
\* exchange, and on LEAVE and on a refused GRAFT the backoff entry of (t, p)
\* is left as it was
C28_PruneSetsBackoffUnlessV10 ==
    [][~panicked' =>
         \A x \in PrunesMade :
           MadeNow(x) =>
             IF OldProtocol(x[1])
             THEN /\ x[2].backoff = None /\ x[2].peers = <<>>
                  /\ last'.op # "heartbeat" =>
                       GetOr(backoffs', <<x[2].topic, x[1]>>, 0)
                         = GetOr(backoffs, <<x[2].topic, x[1]>>, 0)
             ELSE /\ x[2].backoff = Some(BackoffFor(last'.op))
                  /\ GetOr(backoffs', <<x[2].topic, x[1]>>, 0)
                       >= BackoffFor(last'.op) - Aged]_vars

\* the router has left a topic and the PRUNE for a Gossipsub v1.0 peer of
\* its mesh waits in the control pool without a backoff entry
C28_Witness ==
    /\ last.op = "unsubscribe" /\ last.result = "Ok(true)"
    /\ \E p \in MeshPeers :
         /\ Has(connected_peers, p) /\ connected_peers[p].kind = "Gossipsub"
         /\ SeqContains(GetOr(control_pool, p, <<>>), Prune(last.topic, <<>>, None))
         /\ GetOr(backoffs, <<last.topic, p>>, 0) = 0
    /\ \E p \in MeshPeers :
         /\ Has(connected_peers, p) /\ connected_peers[p].kind = "Gossipsubv1_1"
         /\ \E i \in 1..Len(GetOr(control_pool, p, <<>>)) :
              /\ control_pool[p][i].type = "Prune"
              /\ control_pool[p][i].backoff = Some(unsubscribe_backoff)
         /\ GetOr(backoffs, <<last.topic, p>>, 0) >= unsubscribe_backoff

\* ------------------------------------------------------------------------
\* Specification of the fanout: the router publishes on a topic it is not
\* subscribed to, scoring enabled, the peers subscribe and unsubscribe and
\* their scores move across the publish threshold
\* ------------------------------------------------------------------------
FanoutScoreVals == {0 - 4, 0}

InitFanout == InitWith(PruneConfigs)

NextFanout ==
    \/ \E p \in MeshPeers : ConnectionEstablished(p, 1, FALSE)
    \/ \E p \in MeshPeers : PeerKindEvent(p, "Gossipsubv1_1")
    \/ \E p \in MeshPeers, rpc \in SubRpcs : ReceiveRpc(p, rpc)
    \/ \E p \in MeshPeers, v \in FanoutScoreVals : RefreshScores(p, v)
    \/ \E t \in Topics : Publish(t, "d1")
    \/ Heartbeat
    \/ Poll

SpecFanout == InitFanout /\ [][NextFanout]_vars

FanoutScoreOk(p) == hb_score(Cur("", "", ""), p) >= service_publish_threshold(Cur("", "", ""))
FanoutKept(t) ==
    {p \in fanout[t] : Has(peer_topics, p) /\ t \in peer_topics[p] /\ FanoutScoreOk(p)}
FanoutEligible(t) ==
    {p \in GetOr(topic_peers, t, {}) \ FanoutKept(t) :
        /\ kind_is_gossipsub(Cur("", "", ""), p)
        /\ p \notin explicit_peers
        /\ FanoutScoreOk(p)}

\* C29: the heartbeat refills every fanout[t] that has not expired and is
\* below mesh_n towards mesh_n, with peers that are subscribed to t, are not
\* explicit peers and have a score at or above the publish threshold
C29_FanoutRefilled ==
    [][last'.op = "heartbeat" /\ ~panicked' =>
         \A t \in DOMAIN fanout' :
           /\ fanout'[t] \ FanoutKept(t) \subseteq FanoutEligible(t)
           /\ Cardinality(fanout'[t]) >=
                Min2(cfg.mesh_n, Cardinality(FanoutKept(t)) + Cardinality(FanoutEligible(t)))]_vars

\* C30: at the end of every heartbeat every peer of fanout[t] is subscribed
\* to t and has a score at or above the publish threshold
C30_FanoutPeersEligible ==
    last.op = "heartbeat" /\ ~panicked =>
      \A t \in DOMAIN fanout : \A p \in fanout[t] :
        /\ Has(peer_topics, p) /\ t \in peer_topics[p]
        /\ FanoutScoreOk(p)

\* ------------------------------------------------------------------------
\* Specification of the gossip requests: a subscribed router, with and
\* without the scoring service, receives IHAVEs that advertise up to three
\* ids, in one or two control messages, and some of the messages themselves;
\* the application may blacklist the peer, whose messages then drop the
\* promises made for them
\* ------------------------------------------------------------------------
IHaveConfigs == WakuConfigs \cup PruneConfigs
IHavePeers == {"p1"}
IdOf(d) == deterministic_message_id_fn(MsgAnon(d))
IHaveLists ==
    {<<IHave("t1", <<IdOf("d1")>>)>>,
     <<IHave("t1", <<IdOf("d2"), IdOf("d3")>>)>>,
     <<IHave("t1", <<IdOf("d1"), IdOf("d2"), IdOf("d3")>>)>>,
     <<IHave("t1", <<IdOf("d1"), IdOf("d2")>>), IHave("t1", <<IdOf("d2"), IdOf("d3")>>)>>}
IHaveListRpcs == {Rpc(<<>>, <<>>, Some(ControlFromIter(l))) : l \in IHaveLists}

InitIHave == InitWith(IHaveConfigs)

NextIHave ==
    \/ \E t \in Topics : Subscribe(t)
    \/ \E p \in IHavePeers : ConnectionEstablished(p, 1, FALSE)
    \/ \E p \in IHavePeers : PeerKindEvent(p, "Gossipsubv1_1")
    \/ \E p \in IHavePeers, rpc \in IHaveListRpcs \cup MsgRpcs({MsgAnon("d1")}) : ReceiveRpc(p, rpc)
    \/ \E p \in IHavePeers : BlacklistPeer(p)
    \/ Heartbeat
    \/ Poll

SpecIHave == InitIHave /\ [][NextIHave]_vars

\* the IWANTs queued for a peer since the last heartbeat flushed the pool,
\* and the number of message ids they request
IWantsQueued(p) == SelectSeq(GetOr(control_pool, p, <<>>), LAMBDA a: a.type = "IWant")
IWantAsked(p) == FoldSeq(LAMBDA n, a: n + Len(a.ids), 0, IWantsQueued(p))

\* C31: between two heartbeats the IWANTs queued for one peer request at
\* most max_ihave_length message ids in total
C31_IWantWithinIHaveLength ==
    \A p \in DOMAIN control_pool : IWantAsked(p) <= max_ihave_length

\* a second IWANT for the peer was cut down to the ids that were left
C31_Witness ==
    \E p \in DOMAIN control_pool :
      /\ Len(IWantsQueued(p)) = 2
      /\ IWantAsked(p) = max_ihave_length
      /\ last.op = "rpc" /\ last.peer = p
      /\ GetOr(count_received_ihave, p, 0) = 2

\* an IWANT for one id arrives from a peer the gossip threshold lets through
IWantRpc(id) == Rpc(<<>>, <<>>, Some(ControlFromIter(<<IWant(<<id>>)>>)))
IWantReceived(p, id) ==
    /\ ReceiveRpc(p, IWantRpc(id))
    /\ ~score_below_threshold(Cur("", "", ""), p, gossip_threshold)
\* the reply: an RPC queued for the peer that carries the message of the id
Replied(p, id) ==
    \E i \in 1..Len(NewEvents) :
      /\ NewEvents[i].type = "HandlerMessage" /\ NewEvents[i].peer = p
      /\ \E k \in 1..Len(NewEvents[i].rpc.publish) :
           message_id(cfg, NewEvents[i].rpc.publish[k]) = id
\* the requests of the peer for the cached message that were answered so
\* far: the counted ones, up to the limit
ServedBefore(id, p) ==
    Min2(GetOr(GetOr(mcache.iwant_counts, id, EmptyMap), p, 0), gossip_retransimission)

\* C32 as stated: the message is in the reply to an IWANT exactly when the
\* memcache holds it and the peer was served the id at most
\* gossip_retransmission times before
C32_IWantServedUpToRetransmission ==
    [][\A p \in CachePeers, id \in CacheIds :
         IWantReceived(p, id) =>
           (Replied(p, id) <=>
              Has(mcache.msgs, id) /\ ServedBefore(id, p) <= gossip_retransimission)]_vars

\* C32: the message is in the reply to an IWANT exactly when the memcache
\* holds a validated copy and the peer was served the id fewer than
\* gossip_retransmission times before
C32_IWantServedBelowRetransmission ==
    [][\A p \in CachePeers, id \in CacheIds :
         IWantReceived(p, id) =>
           (Replied(p, id) <=>
              /\ Has(mcache.msgs, id) /\ mcache.msgs[id].validated
              /\ ServedBefore(id, p) < gossip_retransimission)]_vars

\* a peer that was served the message asks again and gets no reply
C32_Witness ==
    /\ last.op = "rpc" /\ events = <<>>
    /\ \E id \in CacheIds :
         /\ Has(mcache.msgs, id) /\ mcache.msgs[id].validated
         /\ GetOr(GetOr(mcache.iwant_counts, id, EmptyMap), last.peer, 0) = gossip_retransimission + 1

\* the IHAVEs the router hands over for sending, and the ids of the gossip
\* window of a topic: the entries of the first history_gossip slots
IHavesSent(l) ==
    UNION {{l.controls[i].actions[k] : k \in {j \in 1..Len(l.controls[i].actions) :
                                                l.controls[i].actions[j].type = "IHave"}}
           : i \in 1..Len(l.controls)}
GossipWindow(mc, t) ==
    UNION {{mc.history[i][k].mid : k \in {j \in 1..Len(mc.history[i]) : mc.history[i][j].topic = t}}
           : i \in 1..Min2(history_gossip, Len(mc.history))}

\* C33: every id advertised in an IHAVE belongs, when the heartbeat emits the
\* gossip, to a validated memcache entry of the gossip window of the topic
C33_IHaveValidatedInWindow ==
    [][\A a \in IHavesSent(last') :
         \A id \in SeqToSet(a.ids) :
           /\ last'.op = "heartbeat"
           /\ Has(mcache.msgs, id) /\ mcache.msgs[id].validated
           /\ id \in GossipWindow(mcache, a.topic)]_vars

\* a heartbeat has advertised an id and shifted its entry out of the window
C33_Witness ==
    /\ last.op = "heartbeat"
    /\ \E a \in IHavesSent(last) :
         /\ a.ids # <<>>
         /\ \A id \in SeqToSet(a.ids) : Slots(mcache, id) = {history_gossip + 1}

\* a GRAFT for a topic the router is not subscribed to arrives
GraftRpc(t) == Rpc(<<>>, <<>>, Some(ControlFromIter(<<Graft(t)>>)))
UnknownGraft(p, t) == ReceiveRpc(p, GraftRpc(t)) /\ ~Has(mesh, t)
\* the PRUNEs handed over for sending in the step
PrunesSent(l) ==
    UNION {{[peer |-> l.controls[i].peer, prune |-> l.controls[i].actions[k]]
              : k \in {j \in 1..Len(l.controls[i].actions) :
                         l.controls[i].actions[j].type = "Prune"}}
           : i \in 1..Len(l.controls)}

OriginConfigs ==
    {Config(signer, "Permissive", "deterministic", FALSE, allow, FALSE, FALSE, FALSE)
       : signer \in {"Author", "Anonymous"}, allow \in BOOLEAN}

InitOrigin == InitWith(OriginConfigs)

SpecOrigin == InitOrigin /\ [][NextPublish]_vars

PublishedOk(l) == l.op = "publish" /\ l.result = "Ok"

\* C35 as stated: after a successful publish the id is in
\* published_message_ids whenever the signer omits the author or
\* allow_self_origin is false
C35_PublishedIdRecordedEither ==
    PublishedOk(last) /\ (author(cfg) = None \/ ~cfg.allow_self_origin)
      => SeqContains(published_message_ids, last.id)

\* C35: a successful publish puts the id into published_message_ids exactly
\* when the signer omits the author and allow_self_origin is false
C35_PublishedIdRecordedBoth ==
    [][PublishedOk(last') =>
         /\ author(cfg) = None /\ ~cfg.allow_self_origin
               => SeqContains(published_message_ids', last'.id)
         /\ ~(author(cfg) = None /\ ~cfg.allow_self_origin)
               => published_message_ids' = published_message_ids]_vars

\* a router without author that refuses self-origin has published
C35_Witness ==
    /\ PublishedOk(last) /\ author(cfg) = None /\ ~cfg.allow_self_origin
    /\ SeqContains(published_message_ids, last.id)

\* ------------------------------------------------------------------------
\* Specification of the accepted peer exchange: scoring enabled, prune_peers
\* 0 or 1, a peer whose score moves around the accept-px threshold sends
\* PRUNEs with lists of up to two peers
\* ------------------------------------------------------------------------
AcceptConfigs == {PxConfig(c, n) : c \in ScoreConfigs, n \in {0, prune_peers}}
AcceptScoreVals == {accept_px_threshold - 1, accept_px_threshold}
AcceptPxLists == {<<>>, <<Some("p2")>>, <<Some("p2"), Some("p3")>>}

InitAccept == InitWith(AcceptConfigs)

NextAccept ==
    \/ \E t \in Topics : Subscribe(t)
    \/ ConnectionEstablished("p1", 1, FALSE)
    \/ PeerKindEvent("p1", "Gossipsubv1_1")
    \/ \E v \in AcceptScoreVals : RefreshScores("p1", v)
    \/ \E rpc \in SubscribeRpcs \cup GraftRpcs \cup PruneRpcs(AcceptPxLists, {None}) :
         ReceiveRpc("p1", rpc)
    \/ Poll

SpecAccept == InitAccept /\ [][NextAccept]_vars

\* the dials queued by the step
NewDials == SelectSeq(NewEvents, LAMBDA e: e.type = "Dial")

\* C36: the peers of the peer-exchange list of a received PRUNE are dialled,
\* at most prune_peers of them, only if the score of the sender is at or
\* above the accept-px threshold and prune_peers > 0
C36_PxOnlyAboveThreshold ==
    [][last'.op = "rpc" /\ (NewDials # <<>> \/ px_peers' # px_peers) =>
         /\ score[last'.peer] >= accept_px_threshold
         /\ cfg.prune_peers > 0
         /\ Len(NewDials) <= cfg.prune_peers
         /\ px_peers' \ px_peers \subseteq {NewDials[i].peer : i \in 1..Len(NewDials)}]_vars

\* a PRUNE with a list of two peers was honoured: one of them is dialled
C36_Witness ==
    /\ last.op = "rpc" /\ score[last.peer] >= accept_px_threshold
    /\ Cardinality(px_peers) = 1
    /\ \E i \in 1..Len(events) : events[i].type = "Dial" /\ events[i].peer = "p3"

\* ------------------------------------------------------------------------
\* Specification of the failing publish: messages within and beyond
\* max_transmit_size are published with and without subscribers, by a
\* router that is subscribed to the topic or not
\* ------------------------------------------------------------------------
FailPayloads == {"d1", "big"}

InitFail == InitWith(WakuConfigs)

NextFail ==
    \/ \E t \in Topics : Subscribe(t)
    \/ \E t \in Topics : Unsubscribe(t)
    \/ ConnectionEstablished("p1", 1, FALSE)
    \/ PeerKindEvent("p1", "Gossipsubv1_1")
    \/ \E rpc \in SubRpcs : ReceiveRpc("p1", rpc)
    \/ \E t \in Topics, d \in FailPayloads : Publish(t, d)
    \/ Heartbeat
    \/ Poll

SpecFail == InitFail /\ [][NextFail]_vars

PublishErrors == {"MessageTooLarge", "Duplicate", "InsufficientPeers"}
PublishFailed(l) == l.op = "publish" /\ l.result \in PublishErrors

\* C37 as stated: a publish that returns an error leaves the duplicate
\* cache, the memcache, published_message_ids, mesh, fanout, fanout_last_pub
\* and the event queue as they were
C37_FailedPublishNoChange ==
    [][PublishFailed(last') =>
         UNCHANGED <<duplicate_cache, mcache, published_message_ids, mesh, fanout,
                     fanout_last_pub, events>>]_vars

\* C37: a publish that returns an error leaves the duplicate cache, the
\* memcache, published_message_ids, the mesh and the event queue as they
\* were; MessageTooLarge and Duplicate leave the fanout as it was too, while
\* InsufficientPeers may have created an empty fanout of the topic and
\* recorded the publish in fanout_last_pub
C37_FailedPublishFanoutOnly ==
    [][PublishFailed(last') =>
         /\ UNCHANGED <<duplicate_cache, mcache, published_message_ids, mesh, events>>
         /\ last'.result # "InsufficientPeers" => UNCHANGED <<fanout, fanout_last_pub>>
         /\ last'.result = "InsufficientPeers" =>
              /\ fanout_last_pub' \subseteq fanout_last_pub \cup {last'.topic}
              /\ \/ fanout' = fanout
                 \/ /\ ~Has(fanout, last'.topic) /\ ~Has(mesh, last'.topic)
                    /\ Has(topic_peers, last'.topic)
                    /\ fanout' = Put(fanout, last'.topic, {})]_vars

\* a publish without recipients has failed and left an empty fanout behind
C37_Witness ==
    /\ last.op = "publish" /\ last.result = "InsufficientPeers"
    /\ Has(fanout, last.topic) /\ fanout[last.topic] = {}
    /\ last.topic \in fanout_last_pub

\* C38: after any sequence of router events, add_explicit_peer included, no
\* explicit peer is a member of a mesh
C38_ExplicitPeersOutsideMesh ==
    \A t \in DOMAIN mesh : mesh[t] \cap explicit_peers = {}

\* the RPCs with messages queued by the step for the connection handlers
NewMessageRpcs ==
    SelectSeq(NewEvents, LAMBDA e: e.type = "HandlerMessage" /\ e.rpc.publish # <<>>)

\* C39: a message published or forwarded on a topic is sent only to peers
\* that are recorded as subscribed to the topic when it is sent
C39_SentToSubscribersOnly ==
    [][last'.op \in {"publish", "rpc", "report"} =>
         \A i \in 1..Len(NewMessageRpcs) :
           \A k \in 1..Len(NewMessageRpcs[i].rpc.publish) :
             NewMessageRpcs[i].peer
               \in GetOr(topic_peers, NewMessageRpcs[i].rpc.publish[k].topic, {})]_vars

\* ------------------------------------------------------------------------
\* Specification of the explicit peers: the application names peers as
\* explicit peers and publishes, with and without a subscription of its own
\* ------------------------------------------------------------------------
InitExplicit == InitWith(WakuConfigs)

NextExplicit ==
    \/ \E t \in Topics : Subscribe(t)
    \/ \E p \in MeshPeers : ConnectionEstablished(p, 1, FALSE)
    \/ \E p \in MeshPeers : PeerKindEvent(p, "Gossipsubv1_1")
    \/ \E p \in MeshPeers : AddExplicitPeer(p)
    \/ \E p \in MeshPeers, rpc \in SubscribeRpcs : ReceiveRpc(p, rpc)
    \/ \E t \in Topics : Publish(t, "d1")
    \/ Poll

SpecExplicit == InitExplicit /\ [][NextExplicit]_vars

\* C40: a successful publish hands the message to each recipient at most
\* once, whether the peer is reached as a mesh peer, an explicit peer, a
\* floodsub peer or a fanout peer
C40_PublishedOncePerPeer ==
    [][PublishedOk(last') =>
         \A p \in Peers :
           Cardinality({i \in 1..Len(NewMessageRpcs) : NewMessageRpcs[i].peer = p}) <= 1]_vars
====
